---- MODULE Spec2Model ----
(***************************************************************************)
(* A model of deco-cx/validate-blocks: the structural validator            *)
(* (src/src/validator.ts validateValue), the per-component run             *)
(* (src/src/type-parser.ts main / validateSection / findOccurrencesInJsons *)
(* / reportResults) and the per-document validation with saved blocks      *)
(* (src/src/validator.ts validateJsonFile).                                *)
(*                                                                         *)
(* The module holds three state machines over one set of variables; each   *)
(* specification moves its own variables and leaves the others at their    *)
(* idle value.                                                             *)
(***************************************************************************)
EXTENDS Naturals, Sequences, FiniteSets, TLC

VARIABLES
  \* validateValue: one call, its arguments and its result
  value, schema, path, ignoreUnusedProps, issues, vpc,
  \* main / validateSection / findOccurrencesInJsons / reportResults
  docs, sectionFiles, includeUnusedVars, targetMode, targetExists, antiPatterns,
  sectionIdx, docIdx, occurrences, loopAborted, results, exitCode, rpc,
  \* validateJsonFile
  blocks, topDoc, stack, jfResult, allErrors, jpc,
  \* findSectionsInJson / isSavedBlock / isAppSection: one call each
  jsonInput, foundSections, identifier, category, apc,
  \* extractPropsInterface, and validateValue on the schema it extracted
  declarations, extracted, document, report, epc,
  \* resolveImportPath: one call
  importPath, importMap, projectRoot, existingFiles, resolvedPath, ipc,
  \* extractPropsInterface following re-exports: files on disk, the file
  \* paths of the nested calls, the schema returned
  disk, callChain, returnedSchema, xpc,
  \* main's cleanups: the flags, the JSON documents and the files on disk
  removeUnusedVars, removeUnusedSections, importedFiles, confirmation,
  jsonFiles, totalRemoved, deletedFiles,
  \* validateJsonFile on one section of the site: the component, the files
  \* on disk, the file read and the file path handed to the extraction
  sectionType, sourceFiles, readFrom, extractionPath, spc,
  \* getSavedBlockContent / getSectionContent called concurrently: the
  \* callers, the two caches, the promises created, the reads issued
  calls, savedBlockContentCache, sectionContentCache, promises, readLog,
  contentFiles, diskChanged,
  \* extractPropsInterface called concurrently: the module-level set of the
  \* types being resolved and the calls in flight
  processingTypes, extractions

valVars == <<value, schema, path, ignoreUnusedProps, issues, vpc>>
runVars == <<docs, sectionFiles, includeUnusedVars, targetMode, targetExists,
             antiPatterns,
             sectionIdx, docIdx, occurrences, loopAborted, results, exitCode, rpc>>
jfVars  == <<blocks, topDoc, stack, jfResult, allErrors, jpc>>
anVars  == <<jsonInput, foundSections, identifier, category, apc>>
exVars  == <<declarations, extracted, document, report, epc>>
riVars  == <<importPath, importMap, projectRoot, existingFiles, resolvedPath, ipc>>
rxVars  == <<disk, callChain, returnedSchema, xpc>>
clVars  == <<removeUnusedVars, removeUnusedSections, importedFiles,
             confirmation, jsonFiles, totalRemoved, deletedFiles>>
spVars  == <<sectionType, sourceFiles, readFrom, extractionPath, spc>>
caVars  == <<calls, savedBlockContentCache, sectionContentCache, promises,
             readLog, contentFiles, diskChanged>>
ptVars  == <<processingTypes, extractions>>
lateVars == <<clVars, spVars, caVars, ptVars>>
moreVars == <<riVars, rxVars, lateVars>>
auxVars == <<anVars, exVars, moreVars>>
vars    == <<valVars, runVars, jfVars, auxVars>>

(***************************************************************************)
(* Bounds of the model.                                                    *)
(***************************************************************************)
MaxArrayLen == 2
MaxUnionLen == 2
MaxDocs == 2
MaxSections == 2
MaxAntiPatterns == 1
MaxRefs == 2
\* frames the engine's call stack holds before it throws RangeError
StackLimit == 12
\* nested extractPropsInterface calls followed along a cycle of re-exports
MaxCalls == 5

(***************************************************************************)
(* JSON values.  typeof and Array.isArray are computed from the tag.       *)
(* An object is its own enumerable keys in insertion order (Object.keys),  *)
(* each with its value.  Keys range over names that are not members of     *)
(* Object.prototype.                                                       *)
(***************************************************************************)
Undefined  == [t |-> "undefined"]
Null       == [t |-> "null"]
StrV(x)    == [t |-> "string", s |-> x]
NumV(x)    == [t |-> "number", n |-> x]
BoolV(x)   == [t |-> "boolean", b |-> x]
ArrV(xs)   == [t |-> "array", items |-> xs]
ObjV(es)   == [t |-> "object", entries |-> es]

typeof(v) ==
  CASE v.t = "undefined" -> "undefined"
    [] v.t = "string"    -> "string"
    [] v.t = "number"    -> "number"
    [] v.t = "boolean"   -> "boolean"
    [] OTHER             -> "object"

isArray(v) == v.t = "array"

ObjectKeys(v) == [i \in 1..Len(v.entries) |-> v.entries[i][1]]

SeqRange(s) == {s[i] : i \in 1..Len(s)}

hasKey(v, key) == v.t = "object" /\ key \in SeqRange(ObjectKeys(v))

\* value[key]: the field's value, undefined when the key is absent
getProp(v, key) ==
  IF hasKey(v, key)
    THEN (CHOOSE e \in SeqRange(v.entries) : e[1] = key)[2]
    ELSE Undefined

\* JavaScript truthiness, as used by !value.productID
truthy(v) ==
  CASE v.t = "undefined" -> FALSE
    [] v.t = "null"      -> FALSE
    [] v.t = "string"    -> v.s # ""
    [] v.t = "number"    -> v.n # 0
    [] v.t = "boolean"   -> v.b
    [] OTHER             -> TRUE

startsWith(str, prefix) ==
  Len(str) >= Len(prefix) /\ SubSeq(str, 1, Len(prefix)) = prefix

\* the decimal text of an array index
IndexText(i) ==
  CASE i = 0 -> "0" [] i = 1 -> "1" [] i = 2 -> "2" [] i = 3 -> "3"
    [] i = 4 -> "4" [] OTHER -> "9"

(***************************************************************************)
(* Schemas (TypeSchema).  elementType is a sequence of length 0 (unset) or *)
(* 1; properties is the sequence of Object.entries(schema.properties): the *)
(* extractor always sets it.                                               *)
(***************************************************************************)
Primitive(type, opt) == [kind |-> "primitive", type |-> type, optional |-> opt]
AnyS(opt)            == [kind |-> "any", optional |-> opt]
ArrayS(elem, opt)    == [kind |-> "array", elementType |-> elem, optional |-> opt]
ObjectS(props, opt)  == [kind |-> "object", properties |-> props, optional |-> opt]
UnionS(members, opt) == [kind |-> "union", unionTypes |-> members, optional |-> opt]
SpecialS(tag, opt)   == [kind |-> "special", specialType |-> tag, optional |-> opt]

Issue(p, m, sev) == [path |-> p, message |-> m, severity |-> sev]

PropNames(s) == {s.properties[i][1] : i \in 1..Len(s.properties)}

\* path ? `${path}.${propName}` : propName
PropPath(p, name) == IF p # "" THEN p \o "." \o name ELSE name

\* `${path}[${index}]`
ItemPath(p, index) == p \o "[" \o IndexText(index) \o "]"

(***************************************************************************)
(* src/src/validator.ts: validateValue and the per-kind validators.        *)
(* Messages are those of the source, without diacritics.                   *)
(***************************************************************************)
RECURSIVE validateValue(_, _, _, _)
RECURSIVE validateArray(_, _, _, _)
RECURSIVE validateArrayItems(_, _, _, _, _)
RECURSIVE validateObject(_, _, _, _)
RECURSIVE validateProperties(_, _, _, _, _)
RECURSIVE validateUnion(_, _, _, _)
RECURSIVE validateUnionMembers(_, _, _, _, _)
RECURSIVE validateArrayItems_StopAtFirst(_, _, _, _, _)
RECURSIVE validateProperties_OwnKeysOnly(_, _, _, _, _)
RECURSIVE validateUnionMembers_KeepIssues(_, _, _, _, _)

validatePrimitive(v, s, p) ==
  LET actualType == IF v.t = "null" THEN "null" ELSE typeof(v) IN
  IF s.type = "string" /\ typeof(v) # "string"
    THEN <<Issue(p, "esperado string, recebido " \o actualType, "error")>>
  ELSE IF s.type = "number" /\ typeof(v) # "number"
    THEN <<Issue(p, "esperado number, recebido " \o actualType, "error")>>
  ELSE IF s.type = "boolean" /\ typeof(v) # "boolean"
    THEN <<Issue(p, "esperado boolean, recebido " \o actualType, "error")>>
  ELSE IF s.type = "null" /\ v.t # "null"
    THEN <<Issue(p, "esperado null, recebido " \o actualType, "error")>>
  ELSE <<>>

validateSpecialType(v, s, p) ==
  CASE s.specialType \in {"ImageWidget", "RichText", "Color", "DateWidget",
                          "DateTimeWidget"} ->
         IF typeof(v) # "string"
           THEN <<Issue(p, "esperado " \o s.specialType \o " (string), recebido "
                           \o typeof(v), "error")>>
           ELSE <<>>
    [] s.specialType = "Product" ->
         IF typeof(v) # "object" \/ v.t = "null"
           THEN <<Issue(p, "esperado Product (object), recebido " \o typeof(v),
                        "error")>>
         ELSE IF ~truthy(getProp(v, "productID")) /\ ~truthy(getProp(v, "sku"))
           THEN <<Issue(p \o ".productID", "Product deve ter productID ou sku",
                        "error")>>
         ELSE <<>>
    [] s.specialType = "ProductListingPage" ->
         IF typeof(v) # "object" \/ v.t = "null"
           THEN <<Issue(p, "esperado ProductListingPage (object), recebido "
                           \o typeof(v), "error")>>
         ELSE IF ~isArray(getProp(v, "products"))
           THEN <<Issue(p \o ".products",
                        "ProductListingPage deve ter array products", "error")>>
         ELSE <<>>
    [] s.specialType = "ProductDetailsPage" ->
         IF typeof(v) # "object" \/ v.t = "null"
           THEN <<Issue(p, "esperado ProductDetailsPage (object), recebido "
                           \o typeof(v), "error")>>
         ELSE IF ~truthy(getProp(v, "product"))
           THEN <<Issue(p \o ".product", "ProductDetailsPage deve ter product",
                        "error")>>
         ELSE <<>>
    [] OTHER -> <<>>

\* a slip: the loop over the elements ends at the first element with issues
validateArrayItems_StopAtFirst(items, index, elem, p, ign) ==
  IF index >= Len(items)
    THEN <<>>
    ELSE LET here == validateValue(items[index + 1], elem, ItemPath(p, index), ign)
         IN IF Len(here) > 0
              THEN here
              ELSE validateArrayItems_StopAtFirst(items, index + 1, elem, p, ign)

\* value.forEach((item, index) => errors.push(...validateValue(item, ...)))
validateArrayItems(items, index, elem, p, ign) ==
  IF index >= Len(items)
    THEN <<>>
    ELSE validateValue(items[index + 1], elem, ItemPath(p, index), ign)
         \o validateArrayItems(items, index + 1, elem, p, ign)

\* a slip: only a string discriminator makes a deferred reference
validateArray_StringDiscriminator(v, s, p, ign) ==
  IF typeof(v) = "object" /\ v.t # "null" /\ ~isArray(v)
     /\ hasKey(v, "__resolveType")
     /\ typeof(getProp(v, "__resolveType")) = "string"
    THEN <<>>
  ELSE IF ~isArray(v)
    THEN <<Issue(p, "esperado array, recebido " \o typeof(v), "error")>>
  ELSE IF Len(s.elementType) > 0
    THEN validateArrayItems(v.items, 0, s.elementType[1], p, ign)
  ELSE <<>>

validateArray(v, s, p, ign) ==
  IF typeof(v) = "object" /\ v.t # "null" /\ ~isArray(v)
     /\ hasKey(v, "__resolveType")
    THEN <<>>
  ELSE IF ~isArray(v)
    THEN <<Issue(p, "esperado array, recebido " \o typeof(v), "error")>>
  ELSE IF Len(s.elementType) > 0
    THEN validateArrayItems(v.items, 0, s.elementType[1], p, ign)
  ELSE <<>>

\* a slip: a declared property is validated only when the value has it
validateProperties_OwnKeysOnly(v, props, i, p, ign) ==
  IF i > Len(props)
    THEN <<>>
    ELSE (IF hasKey(v, props[i][1])
            THEN validateValue(getProp(v, props[i][1]), props[i][2],
                               PropPath(p, props[i][1]), ign)
            ELSE <<>>)
         \o validateProperties_OwnKeysOnly(v, props, i + 1, p, ign)

\* for (const [propName, propSchema] of Object.entries(schema.properties))
validateProperties(v, props, i, p, ign) ==
  IF i > Len(props)
    THEN <<>>
    ELSE validateValue(getProp(v, props[i][1]), props[i][2],
                       PropPath(p, props[i][1]), ign)
         \o validateProperties(v, props, i + 1, p, ign)

\* a slip: the reserved prefix is not skipped
extraPropertyWarnings_NoPrefixSkip(v, s, p) ==
  LET keys == ObjectKeys(v)
      flagged == SelectSeq(keys, LAMBDA key : key \notin PropNames(s))
  IN [i \in 1..Len(flagged) |->
        Issue(PropPath(p, flagged[i]),
              "propriedade nao definida na tipagem (pode ser removida)",
              "warning")]

\* for (const key of Object.keys(value)): one warning per undeclared key
extraPropertyWarnings(v, s, p) ==
  LET keys == ObjectKeys(v)
      flagged == SelectSeq(keys, LAMBDA key :
                   ~startsWith(key, "__") /\ key \notin PropNames(s))
  IN [i \in 1..Len(flagged) |->
        Issue(PropPath(p, flagged[i]),
              "propriedade nao definida na tipagem (pode ser removida)",
              "warning")]

validateObject(v, s, p, ign) ==
  IF typeof(v) # "object" \/ v.t = "null" \/ isArray(v)
    THEN <<Issue(p, "esperado object, recebido "
                    \o (IF isArray(v) THEN "array" ELSE typeof(v)), "error")>>
    ELSE validateProperties(v, s.properties, 1, p, ign)
         \o (IF ~ign THEN extraPropertyWarnings(v, s, p) ELSE <<>>)

unionTypeName(m) ==
  IF m.kind = "primitive" THEN m.type
  ELSE IF m.kind = "special" THEN m.specialType
  ELSE m.kind

RECURSIVE joinNames(_, _)
joinNames(members, i) ==
  IF i > Len(members) THEN ""
  ELSE IF i = Len(members) THEN unionTypeName(members[i])
  ELSE unionTypeName(members[i]) \o " | " \o joinNames(members, i + 1)

\* a slip: the issues of the last member tried are returned
validateUnionMembers_KeepIssues(v, members, i, p, ign) ==
  IF Len(validateValue(v, members[i], p, ign)) = 0
    THEN <<>>
  ELSE IF i = Len(members)
    THEN validateValue(v, members[i], p, ign)
  ELSE validateUnionMembers_KeepIssues(v, members, i + 1, p, ign)

\* for (const unionType of schema.unionTypes): the first clean member wins
validateUnionMembers(v, members, i, p, ign) ==
  IF i > Len(members)
    THEN <<Issue(p, "valor nao corresponde a nenhum tipo da uniao ("
                    \o joinNames(members, 1) \o ")", "error")>>
  ELSE IF Len(validateValue(v, members[i], p, ign)) = 0
    THEN <<>>
  ELSE validateUnionMembers(v, members, i + 1, p, ign)

validateUnion(v, s, p, ign) ==
  IF Len(s.unionTypes) = 0
    THEN <<>>
    ELSE validateUnionMembers(v, s.unionTypes, 1, p, ign)

\* a slip: the any schema is tested before the absent value
validateValue_AnyBeforeUndefined(v, s, p, ign) ==
  IF s.kind = "any" THEN <<>>
  ELSE IF v.t = "undefined"
    THEN IF ~s.optional
           THEN <<Issue(p, "propriedade obrigatoria ausente", "error")>>
           ELSE <<>>
  ELSE IF s.kind = "primitive" THEN validatePrimitive(v, s, p)
  ELSE IF s.kind = "array" THEN validateArray(v, s, p, ign)
  ELSE IF s.kind = "object" THEN validateObject(v, s, p, ign)
  ELSE IF s.kind = "union" THEN validateUnion(v, s, p, ign)
  ELSE IF s.kind = "special" THEN validateSpecialType(v, s, p)
  ELSE <<>>

validateValue(v, s, p, ign) ==
  IF v.t = "undefined"
    THEN IF ~s.optional
           THEN <<Issue(p, "propriedade obrigatoria ausente", "error")>>
           ELSE <<>>
  ELSE IF s.kind = "any" THEN <<>>
  ELSE IF s.kind = "primitive" THEN validatePrimitive(v, s, p)
  ELSE IF s.kind = "array" THEN validateArray(v, s, p, ign)
  ELSE IF s.kind = "object" THEN validateObject(v, s, p, ign)
  ELSE IF s.kind = "union" THEN validateUnion(v, s, p, ign)
  ELSE IF s.kind = "special" THEN validateSpecialType(v, s, p)
  ELSE <<>>

(***************************************************************************)
(* The inputs of validateValue: JSON values and schemas of bounded size.   *)
(***************************************************************************)
Keys == <<"name", "extra", "__resolveType">>

LeafValues == {StrV("x"), NumV(1), BoolV(TRUE), Null}

InnerValues ==
  { StrV("x"), NumV(1),
    ObjV(<< <<"name", StrV("x")>> >>),
    ObjV(<< <<"name", NumV(1)>>, <<"extra", NumV(1)>> >>),
    ArrV(<< ObjV(<< <<"extra", StrV("x")>>, <<"__resolveType", StrV("x")>> >>) >>) }

\* the entry sequences over Keys[i..], each key present or absent
RECURSIVE EntrySeqs(_, _)
EntrySeqs(i, vals) ==
  IF i > Len(Keys)
    THEN {<<>>}
    ELSE LET rest == EntrySeqs(i + 1, vals)
         IN rest \cup { << <<Keys[i], v>> >> \o r : v \in vals, r \in rest }

SeqsUpTo(S, n) == UNION { [1..k -> S] : k \in 0..n }

Values ==
  {Undefined} \cup LeafValues
  \cup { ArrV(xs) : xs \in SeqsUpTo(InnerValues, MaxArrayLen) }
  \cup { ObjV(es) : es \in EntrySeqs(1, InnerValues) }

InnerSchemas ==
  { Primitive("string", FALSE),
    Primitive("number", TRUE),
    ObjectS(<< <<"name", Primitive("string", FALSE)>> >>, FALSE),
    ArrayS(<< ObjectS(<< <<"name", Primitive("string", TRUE)>> >>, FALSE) >>, FALSE),
    UnionS(<< Primitive("number", FALSE),
              ObjectS(<< <<"name", Primitive("string", FALSE)>> >>, FALSE) >>, FALSE) }

PropertySeqs ==
  {<<>>}
  \cup { << <<"name", s>> >> : s \in InnerSchemas }
  \cup { << <<"extra", s>> >> : s \in InnerSchemas }
  \cup { << <<"name", s1>>, <<"extra", s2>> >> : s1 \in InnerSchemas, s2 \in InnerSchemas }

Schemas ==
  UNION { { Primitive(ty, opt) : ty \in {"string", "number", "boolean", "null"} }
          \cup { AnyS(opt) }
          \cup { SpecialS(tag, opt) : tag \in {"ImageWidget", "Product", "Video"} }
          \cup { ArrayS(e, opt) : e \in SeqsUpTo(InnerSchemas \cup {AnyS(FALSE)}, 1) }
          \cup { ObjectS(ps, opt) : ps \in PropertySeqs }
          \cup { UnionS(ms, opt) : ms \in SeqsUpTo(InnerSchemas, MaxUnionLen) }
          : opt \in BOOLEAN }

Paths == {"", "root"}

(***************************************************************************)
(* Idle values of the variables a specification does not move.             *)
(***************************************************************************)
ValIdle ==
  /\ value = Undefined /\ schema = AnyS(TRUE) /\ path = ""
  /\ ignoreUnusedProps = FALSE /\ issues = <<>> /\ vpc = "idle"

RunIdle ==
  /\ docs = <<>> /\ sectionFiles = <<>> /\ includeUnusedVars = FALSE
  /\ targetMode = FALSE /\ targetExists = FALSE /\ antiPatterns = 0
  /\ sectionIdx = 0 /\ docIdx = 0 /\ occurrences = <<>> /\ loopAborted = FALSE
  /\ results = <<>> /\ exitCode = 0 /\ rpc = "idle"

JfIdle ==
  /\ blocks = <<>> /\ topDoc = 0 /\ stack = <<>> /\ jfResult = <<>>
  /\ allErrors = <<>> /\ jpc = "idle"

AnIdle ==
  /\ jsonInput = Undefined /\ foundSections = <<>> /\ identifier = ""
  /\ category = [savedBlock |-> TRUE, appSection |-> FALSE, ignored |-> FALSE]
  /\ apc = "idle"

ExIdle ==
  /\ declarations = [decls |-> <<>>, param |-> [k |-> "none"]]
  /\ extracted = [kind |-> "null"] /\ document = Undefined
  /\ report = <<>> /\ epc = "idle"

RiIdle ==
  /\ importPath = "" /\ importMap = <<>> /\ projectRoot = ""
  /\ existingFiles = {} /\ resolvedPath = "" /\ ipc = "idle"

RxIdle ==
  /\ disk = <<>> /\ callChain = <<>> /\ returnedSchema = [kind |-> "null"]
  /\ xpc = "idle"

ClIdle ==
  /\ removeUnusedVars = FALSE /\ removeUnusedSections = FALSE
  /\ importedFiles = {} /\ confirmation = "" /\ jsonFiles = <<>>
  /\ totalRemoved = 0 /\ deletedFiles = {}

SpIdle ==
  /\ sectionType = "" /\ sourceFiles = {} /\ readFrom = ""
  /\ extractionPath = "" /\ spc = "idle"

CaIdle ==
  /\ calls = <<>> /\ savedBlockContentCache = <<>> /\ sectionContentCache = <<>>
  /\ promises = <<>> /\ readLog = <<>> /\ contentFiles = {}
  /\ diskChanged = FALSE

PtIdle == processingTypes = {} /\ extractions = <<>>

LateIdle == ClIdle /\ SpIdle /\ CaIdle /\ PtIdle

MoreIdle == RiIdle /\ RxIdle /\ LateIdle

AuxIdle == AnIdle /\ ExIdle /\ MoreIdle

(***************************************************************************)
(* SpecValidate: one call of validateValue on arbitrary inputs.            *)
(***************************************************************************)
InitValidate ==
  /\ value \in Values
  /\ schema \in Schemas
  /\ path \in Paths
  /\ ignoreUnusedProps \in BOOLEAN
  /\ issues = <<>>
  /\ vpc = "call"
  /\ RunIdle /\ JfIdle /\ AuxIdle

CallValidateValue ==
  /\ vpc = "call"
  /\ issues' = validateValue(value, schema, path, ignoreUnusedProps)
  /\ vpc' = "done"
  /\ UNCHANGED <<value, schema, path, ignoreUnusedProps, runVars, jfVars, auxVars>>

NextValidate == CallValidateValue

SpecValidate == InitValidate /\ [][NextValidate]_vars

(***************************************************************************)
(* src/src/type-parser.ts: main, validateSpecificFile, validateAllSections,*)
(* validateSection, findOccurrencesInJsons, findInObject, reportResults.   *)
(*                                                                         *)
(* A document of the blocks directory is its name and what JSON.parse      *)
(* makes of its content: a value, or a SyntaxError (parses = FALSE).       *)
(* A section file is its path relative to the project root and the schema  *)
(* extractPropsInterface returns for it (a sequence of length 0 for null). *)
(***************************************************************************)
includes(str, sub) ==
  \E i \in 1..(Len(str) + 1) :
    i + Len(sub) - 1 <= Len(str) /\ SubSeq(str, i, i + Len(sub) - 1) = sub

endsWith(str, suffix) ==
  Len(str) >= Len(suffix)
  /\ SubSeq(str, Len(str) - Len(suffix) + 1, Len(str)) = suffix

\* src/type-mapper.ts: `site/${relative(projectRoot, filePath)}`
filePathToResolveType(file) == "site/" \o file

systemLoaders ==
  {"loaders/user.ts", "loaders/icons.ts", "loaders/wishlist.ts",
   "loaders/minicart.ts", "loaders/availableIcons.ts"}

\* validateSection returns null before looking at any document
sectionIgnored(file) ==
  \/ includes(filePathToResolveType(file), "/Theme/Theme.tsx")
  \/ \E loader \in systemLoaders : endsWith(file, loader)

RECURSIVE findInObject(_, _, _, _, _)
RECURSIVE findInItems(_, _, _, _, _, _)
RECURSIVE findInEntries(_, _, _, _, _, _)

\* obj.forEach((item, index) => results.push(...findInObject(item, ...)))
findInItems(items, i, target, currentPath, propsSchema, include) ==
  IF i > Len(items)
    THEN <<>>
    ELSE findInObject(items[i], target,
                      IF currentPath # ""
                        THEN currentPath \o "[" \o IndexText(i - 1) \o "]"
                        ELSE "[" \o IndexText(i - 1) \o "]",
                      propsSchema, include)
         \o findInItems(items, i + 1, target, currentPath, propsSchema, include)

\* for (const [key, value] of Object.entries(obj))
findInEntries(entries, i, target, currentPath, propsSchema, include) ==
  IF i > Len(entries)
    THEN <<>>
    ELSE findInObject(entries[i][2], target,
                      IF currentPath # ""
                        THEN currentPath \o "." \o entries[i][1]
                        ELSE entries[i][1],
                      propsSchema, include)
         \o findInEntries(entries, i + 1, target, currentPath, propsSchema, include)

\* the validation of one matched node
occurrenceOf(obj, currentPath, propsSchema, include) ==
  IF Len(propsSchema) = 0
    THEN [path |-> IF currentPath # "" THEN currentPath ELSE "root",
          valid |-> TRUE,
          errors |-> <<>>,
          warnings |-> <<Issue("Props", "Props interface not found in file",
                               "warning")>>]
    ELSE LET allIssues == validateValue(obj, propsSchema[1], "", ~include)
             errs == SelectSeq(allIssues, LAMBDA e : e.severity # "warning")
             warns == SelectSeq(allIssues, LAMBDA e : e.severity = "warning")
         IN [path |-> IF currentPath # "" THEN currentPath ELSE "root",
             valid |-> Len(errs) = 0,
             errors |-> errs,
             warnings |-> warns]

findInObject(obj, target, currentPath, propsSchema, include) ==
  IF typeof(obj) # "object" \/ obj.t = "null"
    THEN <<>>
    ELSE (IF hasKey(obj, "__resolveType")
             /\ getProp(obj, "__resolveType") = StrV(target)
            THEN <<occurrenceOf(obj, currentPath, propsSchema, include)>>
            ELSE <<>>)
         \o (IF isArray(obj)
               THEN findInItems(obj.items, 1, target, currentPath, propsSchema,
                                include)
               ELSE findInEntries(obj.entries, 1, target, currentPath,
                                  propsSchema, include))

\* the OccurrenceValidation records pushed for one parsed document
occurrencesIn(doc, target, propsSchema, include) ==
  LET found == findInObject(doc.json, target, "", propsSchema, include)
  IN [i \in 1..Len(found) |->
        [jsonFile |-> doc.name, jsonPath |-> found[i].path,
         valid |-> found[i].valid, errors |-> found[i].errors,
         warnings |-> found[i].warnings]]

RECURSIVE sumLen(_, _, _)
sumLen(occs, i, field) ==
  IF i > Len(occs) THEN 0
  ELSE Len(IF field = "errors" THEN occs[i].errors ELSE occs[i].warnings)
       + sumLen(occs, i + 1, field)

\* the SectionValidationResult validateSection returns
sectionResult(file, occs) ==
  IF Len(occs) = 0
    THEN [sectionFile |-> file, resolveType |-> filePathToResolveType(file),
          occurrences |-> <<>>, totalErrors |-> 0, totalWarnings |-> 1,
          unused |-> TRUE]
    ELSE [sectionFile |-> file, resolveType |-> filePathToResolveType(file),
          occurrences |-> occs, totalErrors |-> sumLen(occs, 1, "errors"),
          totalWarnings |-> sumLen(occs, 1, "warnings"), unused |-> FALSE]

isSpecialSection(r) ==
  \/ includes(r.sectionFile, "sections/Theme/")
  \/ endsWith(r.sectionFile, "sections/Component.tsx")
  \/ endsWith(r.sectionFile, "sections/Session.tsx")

\* a slip: a section with warnings counts as a section with errors
sectionsWithErrors_CountWarnings(rs) ==
  SelectSeq(rs, LAMBDA r :
    ~(r.unused /\ ~isSpecialSection(r)) /\ (r.totalErrors > 0 \/ r.totalWarnings > 0))

\* the results reportResults collects in sectionsWithErrors
sectionsWithErrors(rs) ==
  SelectSeq(rs, LAMBDA r :
    ~(r.unused /\ ~isSpecialSection(r)) /\ r.totalErrors > 0)

\* reportResults returns sectionsWithErrors.length > 0
reportResults(rs, patterns) == Len(sectionsWithErrors(rs)) > 0

(***************************************************************************)
(* The runs of main that the model explores: the documents of the blocks   *)
(* directory in walk order, the section files in findAllSections order     *)
(* (in target mode the first one is the file named on the command line),   *)
(* and the flags.                                                          *)
(***************************************************************************)
HeroType == "site/sections/Hero.tsx"
TextType == "site/sections/Text.tsx"

NameProps == ObjectS(<<<<"name", Primitive("string", FALSE)>>>>, FALSE)

UnparsableDoc == [parses |-> FALSE, json |-> Undefined]
ParsedDoc(v) == [parses |-> TRUE, json |-> v]

DocContents ==
  { UnparsableDoc,
    ParsedDoc(ObjV(<<<<"name", StrV("a")>>, <<"extra", NumV(1)>>,
                     <<"__resolveType", StrV(HeroType)>>>>)),
    ParsedDoc(ObjV(<<<<"__resolveType", StrV(HeroType)>>>>)),
    ParsedDoc(ObjV(<<<<"name", StrV("a")>>,
                     <<"extra", ObjV(<<<<"__resolveType", StrV(HeroType)>>>>)>>,
                     <<"__resolveType", StrV(HeroType)>>>>)),
    ParsedDoc(ObjV(<<<<"sections",
                       ArrV(<<ObjV(<<<<"name", NumV(1)>>,
                                     <<"__resolveType", StrV(TextType)>>>>)>>)>>>>)) }

SectionFile(f, raises, s) == [file |-> f, raises |-> raises, schema |-> s]

SectionFileUniverse ==
  { SectionFile("sections/Hero.tsx", FALSE, <<NameProps>>),
    SectionFile("sections/Hero.tsx", FALSE, <<>>),
    SectionFile("sections/Text.tsx", FALSE, <<NameProps>>),
    SectionFile("sections/Text.tsx", TRUE, <<>>),
    SectionFile("sections/Theme/Theme.tsx", FALSE, <<NameProps>>) }

DocName(i) == "block" \o IndexText(i) \o ".json"

DocSeqs ==
  UNION { { [i \in 1..k |-> [name |-> DocName(i), parses |-> c[i].parses,
                             json |-> c[i].json]] : c \in [1..k -> DocContents] }
          : k \in 0..MaxDocs }

SectionFileSeqs ==
  { fs \in UNION { [1..k -> SectionFileUniverse] : k \in 1..MaxSections } :
      \A i, j \in 1..Len(fs) : i # j => fs[i].file # fs[j].file }

\* the files main hands to validateSection, in order
filesToValidate ==
  IF targetMode THEN SubSeq(sectionFiles, 1, 1) ELSE sectionFiles

InitRun ==
  /\ ValIdle /\ JfIdle /\ AuxIdle
  /\ docs \in DocSeqs
  /\ sectionFiles \in SectionFileSeqs
  /\ includeUnusedVars \in BOOLEAN
  /\ targetMode \in BOOLEAN
  /\ targetExists \in (IF targetMode THEN BOOLEAN ELSE {TRUE})
  /\ antiPatterns = 0
  /\ sectionIdx = 0 /\ docIdx = 0
  /\ occurrences = <<>> /\ loopAborted = FALSE
  /\ results = <<>> /\ exitCode = 0
  /\ rpc = "main"

\* main up to the first validateSection; validateSpecificFile exits with
\* status 1 when Deno.stat fails on the named file
MainStart ==
  /\ rpc = "main"
  /\ IF targetMode /\ ~targetExists
       THEN /\ exitCode' = 1
            /\ rpc' = "exited"
       ELSE /\ exitCode' = exitCode
            /\ rpc' = "sections"
  /\ UNCHANGED <<docs, sectionFiles, includeUnusedVars, targetMode,
                 targetExists, antiPatterns, sectionIdx, docIdx, occurrences,
                 loopAborted, results>>
  /\ UNCHANGED valVars /\ UNCHANGED jfVars /\ UNCHANGED auxVars

\* validateSection up to the call of findOccurrencesInJsons; it returns
\* null for Theme, for a system loader and when the extraction raises
ValidateSectionBegin ==
  /\ rpc = "sections"
  /\ sectionIdx < Len(filesToValidate)
  /\ sectionIdx' = sectionIdx + 1
  /\ LET sf == filesToValidate[sectionIdx + 1] IN
       IF sectionIgnored(sf.file) \/ sf.raises
         THEN /\ rpc' = "sections"
              /\ docIdx' = docIdx
         ELSE /\ rpc' = "scan"
              /\ docIdx' = 0
  /\ occurrences' = <<>>
  /\ loopAborted' = FALSE
  /\ UNCHANGED <<docs, sectionFiles, includeUnusedVars, targetMode,
                 targetExists, antiPatterns, results, exitCode>>
  /\ UNCHANGED valVars /\ UNCHANGED jfVars /\ UNCHANGED auxVars

\* one iteration of the for-await loop of findOccurrencesInJsons; the try
\* encloses the loop, so a JSON.parse that throws leaves the loop
ScanDocument ==
  /\ rpc = "scan"
  /\ ~loopAborted
  /\ docIdx < Len(docs)
  /\ docIdx' = docIdx + 1
  /\ LET doc == docs[docIdx + 1]
         sf == filesToValidate[sectionIdx]
     IN IF doc.parses
          THEN /\ occurrences' =
                    occurrences \o occurrencesIn(doc, filePathToResolveType(sf.file),
                                                 sf.schema, includeUnusedVars)
               /\ loopAborted' = FALSE
          ELSE /\ occurrences' = occurrences
               /\ loopAborted' = TRUE
  /\ UNCHANGED <<docs, sectionFiles, includeUnusedVars, targetMode,
                 targetExists, antiPatterns, sectionIdx, results, exitCode, rpc>>
  /\ UNCHANGED valVars /\ UNCHANGED jfVars /\ UNCHANGED auxVars

\* findOccurrencesInJsons returns; validateSection builds its result and
\* the caller pushes it
ValidateSectionEnd ==
  /\ rpc = "scan"
  /\ loopAborted \/ docIdx = Len(docs)
  /\ results' = Append(results,
                       sectionResult(filesToValidate[sectionIdx].file, occurrences))
  /\ rpc' = "sections"
  /\ UNCHANGED <<docs, sectionFiles, includeUnusedVars, targetMode,
                 targetExists, antiPatterns, sectionIdx, docIdx, occurrences,
                 loopAborted, exitCode>>
  /\ UNCHANGED valVars /\ UNCHANGED jfVars /\ UNCHANGED auxVars

\* detectAntiPatterns: the number of anti-pattern issues it returns
DetectAntiPatterns ==
  /\ rpc = "sections"
  /\ sectionIdx = Len(filesToValidate)
  /\ \E n \in 0..MaxAntiPatterns : antiPatterns' = n
  /\ rpc' = "report"
  /\ UNCHANGED <<docs, sectionFiles, includeUnusedVars, targetMode,
                 targetExists, sectionIdx, docIdx, occurrences, loopAborted,
                 results, exitCode>>
  /\ UNCHANGED valVars /\ UNCHANGED jfVars /\ UNCHANGED auxVars

\* const hasErrors = reportResults(results, antiPatterns);
\* Deno.exit(hasErrors ? 1 : 0)
ReportResults ==
  /\ rpc = "report"
  /\ exitCode' = IF reportResults(results, antiPatterns) THEN 1 ELSE 0
  /\ rpc' = "exited"
  /\ UNCHANGED <<docs, sectionFiles, includeUnusedVars, targetMode,
                 targetExists, antiPatterns, sectionIdx, docIdx, occurrences,
                 loopAborted, results>>
  /\ UNCHANGED valVars /\ UNCHANGED jfVars /\ UNCHANGED auxVars

NextRun ==
  \/ MainStart
  \/ ValidateSectionBegin
  \/ ScanDocument
  \/ ValidateSectionEnd
  \/ DetectAntiPatterns
  \/ ReportResults

SpecRun == InitRun /\ [][NextRun]_vars

(***************************************************************************)
(* src/src/import-analyzer.ts: the helpers validateJsonFile calls.         *)
(***************************************************************************)
\* the text after the last "/": parts[parts.length - 1] of split("/")
RECURSIVE lastPart(_)
lastPart(str) ==
  IF ~includes(str, "/") THEN str
  ELSE lastPart(SubSeq(str, 2, Len(str)))

\* a slip: the extension is looked for anywhere in the identifier
isSavedBlock_ExtensionAnywhere(resolveType) ==
  IF resolveType = "resolved" THEN FALSE
  ELSE IF startsWith(resolveType, "site/") \/ startsWith(resolveType, "website/")
    THEN FALSE
  ELSE IF includes(resolveType, ".ts") THEN FALSE
  ELSE TRUE

isSavedBlock(resolveType) ==
  IF resolveType = "resolved" THEN FALSE
  ELSE IF startsWith(resolveType, "site/") \/ startsWith(resolveType, "website/")
    THEN FALSE
  ELSE IF endsWith(resolveType, ".tsx") \/ endsWith(resolveType, ".ts")
    THEN FALSE
  ELSE IF includes(resolveType, ".") /\ ~endsWith(resolveType, ".")
          /\ includes(lastPart(resolveType), ".")
          /\ (endsWith(lastPart(resolveType), ".tsx")
              \/ endsWith(lastPart(resolveType), ".ts"))
    THEN FALSE
  ELSE TRUE

isAppSection(resolveType) == startsWith(resolveType, "site/")

shouldIgnore(resolveType) ==
  ~isSavedBlock(resolveType) /\ ~isAppSection(resolveType)

\* encodeURIComponent on one character, for the characters of block names
encodeChar(c) ==
  CASE c = "/" -> "%2F"
    [] c = " " -> "%20"
    [] OTHER   -> c

RECURSIVE encodeURIComponent(_)
encodeURIComponent(str) ==
  IF str = "" THEN ""
  ELSE encodeChar(SubSeq(str, 1, 1)) \o encodeURIComponent(SubSeq(str, 2, Len(str)))

blockNameToFileName(blockName) == encodeURIComponent(blockName) \o ".json"

\* const { __resolveType, ...props } = record
restProps(record) ==
  ObjV(SelectSeq(record.entries, LAMBDA e : e[1] # "__resolveType"))

RECURSIVE findSectionsInJson(_, _)
RECURSIVE findSectionsInItems(_, _, _)
RECURSIVE findSectionsInEntries(_, _, _)

\* a slip: an ignored node ends the search instead of being searched
findSectionsInJson_StopAtIgnored(obj, pathSeq) ==
  IF typeof(obj) # "object" \/ obj.t = "null" THEN <<>>
  ELSE IF isArray(obj) THEN findSectionsInItems(obj.items, 1, pathSeq)
  ELSE IF hasKey(obj, "__resolveType")
          /\ typeof(getProp(obj, "__resolveType")) = "string"
    THEN IF shouldIgnore(getProp(obj, "__resolveType").s) THEN <<>>
         ELSE <<[resolveType |-> getProp(obj, "__resolveType").s,
                 props |-> restProps(obj),
                 path |-> pathSeq]>>
              \o findSectionsInEntries(obj.entries, 1, pathSeq)
  ELSE findSectionsInEntries(obj.entries, 1, pathSeq)

findSectionsInItems(items, i, pathSeq) ==
  IF i > Len(items) THEN <<>>
  ELSE findSectionsInJson(items[i],
                          Append(pathSeq, "[" \o IndexText(i - 1) \o "]"))
       \o findSectionsInItems(items, i + 1, pathSeq)

findSectionsInEntries(entries, i, pathSeq) ==
  IF i > Len(entries) THEN <<>>
  ELSE (IF entries[i][1] = "__resolveType" THEN <<>>
        ELSE findSectionsInJson(entries[i][2], Append(pathSeq, entries[i][1])))
       \o findSectionsInEntries(entries, i + 1, pathSeq)

findSectionsInJson(obj, pathSeq) ==
  IF typeof(obj) # "object" \/ obj.t = "null" THEN <<>>
  ELSE IF isArray(obj) THEN findSectionsInItems(obj.items, 1, pathSeq)
  ELSE IF hasKey(obj, "__resolveType")
          /\ typeof(getProp(obj, "__resolveType")) = "string"
          /\ ~shouldIgnore(getProp(obj, "__resolveType").s)
    THEN <<[resolveType |-> getProp(obj, "__resolveType").s,
            props |-> restProps(obj),
            path |-> pathSeq]>>
         \o findSectionsInEntries(obj.entries, 1, pathSeq)
  ELSE findSectionsInEntries(obj.entries, 1, pathSeq)

\* Array.prototype.join
RECURSIVE join(_, _)
join(strs, sep) ==
  IF Len(strs) = 0 THEN ""
  ELSE IF Len(strs) = 1 THEN strs[1]
  ELSE strs[1] \o sep \o join(Tail(strs), sep)

(***************************************************************************)
(* src/src/validator.ts: validateJsonFile.  The recursion is the stack of  *)
(* its activations; the top of the stack is the one that is running.  An   *)
(* activation is its filePath, the sections found in its document, the     *)
(* number of sections the loop has finished (idx), processedBlocks, and    *)
(* the three collections it returns; finished tells that the try block was *)
(* left, at the end of the loop or through the catch.                      *)
(*                                                                         *)
(* The file system: blocks gives, for a saved block's name, what           *)
(* Deno.readTextFile finds at its path and what JSON.parse makes of it;    *)
(* the section files are fixed.                                            *)
(***************************************************************************)
ValidationError(f, sp, rt, msgs) ==
  [file |-> f, sectionPath |-> sp, resolveType |-> rt, errors |-> msgs]

\* a slip: JSON.parse is called before the try block is entered
insideTry_ParseOutside(step) == step \in {"sections", "call"}

\* the steps the try block of validateJsonFile encloses: JSON.parse, the loop
\* over the sections, the recursive call awaited in it
insideTry(step) == step \in {"parse", "sections", "call"}

\* catch (e) { errors.push({ file: filePath, sectionPath: "", ... }) }
catchBlock(filePath, errors, message) ==
  Append(errors,
         ValidationError(filePath, "", "", <<"Error processing JSON: " \o message>>))

\* a slip: the block is not added to the copy of the set
newProcessedBlocks_NotAdded(processedBlocks, resolveType) == processedBlocks

\* new Set(processedBlocks) with the block added
newProcessedBlocks(processedBlocks, resolveType) ==
  processedBlocks \cup {resolveType}

\* a slip: the block is added to the caller's own set
callerProcessedBlocks_SharedSet(processedBlocks, resolveType) ==
  processedBlocks \cup {resolveType}

\* the caller's processedBlocks after the copy was extended: untouched
callerProcessedBlocks(processedBlocks, resolveType) == processedBlocks

\* getSectionContent(resolveType) found a file
sectionContentFound(resolveType) ==
  resolveType \in {"site/sections/Ok.tsx", "site/sections/Bad.tsx",
                   "site/sections/Odd.tsx"}

\* reading the section's Props raises (new RegExp on an unescaped type name)
sectionProcessingRaises(resolveType) == resolveType = "site/sections/Odd.tsx"

\* the messages validateProps returns for the section's props
validationMessages(resolveType) ==
  IF resolveType = "site/sections/Bad.tsx"
    THEN <<"Missing required property: \"title\" (type: string)">>
    ELSE <<>>

\* the activation validateJsonFile(filePath, jsonContent, processedBlocks)
\* starts as; JSON.parse throwing goes straight to the catch
newActivation(filePath, content, processedBlocks) ==
  [filePath |-> filePath,
   sections |-> IF content.parses THEN findSectionsInJson(content.json, <<>>)
                ELSE <<>>,
   idx |-> 0,
   processedBlocks |-> processedBlocks,
   errors |-> IF content.parses \/ ~insideTry("parse") THEN <<>>
              ELSE catchBlock(filePath, <<>>, "Unexpected token"),
   unresolvedResolveTypes |-> <<>>,
   usedSavedBlocks |-> {},
   finished |-> ~content.parses \/ Len(findSectionsInJson(content.json, <<>>)) = 0,
   raised |-> ~content.parses /\ ~insideTry("parse")]

\* an exception raised at a step of the activation: the catch block when
\* the step is inside the try, otherwise it leaves the activation
raise(frame, step, message) ==
  IF insideTry(step)
    THEN [frame EXCEPT !.errors = catchBlock(frame.filePath, @, message),
                       !.finished = TRUE]
    ELSE [frame EXCEPT !.finished = TRUE, !.raised = TRUE]

top == stack[Len(stack)]
section == top.sections[top.idx + 1]
sectionPath == join(section.path, ".")

replaceTop(frame) == [stack EXCEPT ![Len(stack)] = frame]

\* the loop moves to its next section
continue(frame) ==
  [frame EXCEPT !.idx = @ + 1, !.finished = (frame.idx + 1 = Len(frame.sections))]

\* errors after the extra-properties check of a saved block's reference
withExtraPropsError(frame) ==
  IF Len(ObjectKeys(section.props)) > 0
    THEN Append(frame.errors,
                ValidationError(frame.filePath, sectionPath, section.resolveType,
                  <<"Saved block should not have extra properties. Found: "
                    \o join(ObjectKeys(section.props), ", ")>>))
    ELSE frame.errors

\* getSavedBlockContent: null when the file cannot be read (exists = FALSE
\* also stands for an empty file, which !blockContent treats alike)
getSavedBlockContent(resolveType) ==
  IF isSavedBlock(resolveType) /\ resolveType \in DOMAIN blocks
     /\ blocks[resolveType].exists
    THEN <<blocks[resolveType]>>
    ELSE <<>>

\* errors.push of every error of the block's result, under the caller's file
RECURSIVE relabel(_, _, _, _)
relabel(blockErrors, i, filePath, prefix) ==
  IF i > Len(blockErrors) THEN <<>>
  ELSE <<ValidationError(filePath, prefix \o " -> " \o blockErrors[i].sectionPath,
                         blockErrors[i].resolveType, blockErrors[i].errors)>>
       \o relabel(blockErrors, i + 1, filePath, prefix)

running == jpc = "running" /\ Len(stack) > 0 /\ ~top.finished

BlockNames == {"A", "p/B"}

TopFile == ".deco/blocks/Home.json"

Reference(name, extra) ==
  ObjV((IF extra THEN <<<<"extra", NumV(1)>>>> ELSE <<>>)
       \o <<<<"__resolveType", StrV(name)>>>>)

\* the references the document of the saved block called name is built from
BlockRefs(name) ==
  IF name = "A"
    THEN { Reference("A", TRUE), Reference("p/B", FALSE) }
    ELSE { Reference("A", FALSE), Reference("site/sections/Gone.tsx", FALSE) }

\* the references the validated document is built from
TopRefs ==
  { Reference("A", FALSE), Reference("p/B", TRUE),
    Reference("site/sections/Bad.tsx", FALSE),
    Reference("site/sections/Odd.tsx", FALSE) }

DocumentOf(refs) == ObjV(<<<<"sections", ArrV(refs)>>>>)

FileContent(exists, parses, json) ==
  [exists |-> exists, parses |-> parses, json |-> json]

\* what the file of the saved block called name may hold: nothing (no
\* file), text that is not JSON, or a document of references
BlockContents(name) ==
  { FileContent(FALSE, FALSE, Undefined), FileContent(TRUE, FALSE, Undefined) }
  \cup { FileContent(TRUE, TRUE, DocumentOf(refs)) :
           refs \in SeqsUpTo(BlockRefs(name),
                             IF name = "A" THEN MaxRefs ELSE MaxRefs - 1) }

\* a page whose own __resolveType is not a section, holding a reference
PageOf(refs) ==
  ObjV(<<<<"sections", ArrV(refs)>>,
         <<"__resolveType", StrV("website/pages/Page.tsx")>>>>)

TopContents ==
  { FileContent(TRUE, FALSE, Undefined),
    FileContent(TRUE, TRUE, Reference("A", FALSE)),
    FileContent(TRUE, TRUE, PageOf(<<Reference("A", FALSE)>>)),
    FileContent(TRUE, TRUE, PageOf(<<Reference("site/sections/Ok.tsx", FALSE),
                                     Reference("p/B", FALSE)>>)) }
  \cup { FileContent(TRUE, TRUE, DocumentOf(refs)) : refs \in SeqsUpTo(TopRefs, MaxRefs) }

\* documents that hold references to saved blocks only
GraphTopContents ==
  { FileContent(TRUE, TRUE, DocumentOf(refs)) :
      refs \in SeqsUpTo({ Reference("A", FALSE), Reference("p/B", TRUE) }, MaxRefs) }

BlockFiles ==
  { f \in [BlockNames -> UNION { BlockContents(n) : n \in BlockNames }] :
      \A n \in BlockNames : f[n] \in BlockContents(n) }

InitJfWith(contents) ==
  /\ ValIdle /\ RunIdle /\ AuxIdle
  /\ blocks \in BlockFiles
  /\ topDoc \in contents
  /\ stack = <<>>
  /\ jfResult = <<>>
  /\ allErrors = <<>>
  /\ jpc = "call"

\* the caller's validateJsonFile(entry.path, content)
JfCall ==
  /\ jpc = "call"
  /\ stack' = <<newActivation(TopFile, topDoc, {})>>
  /\ jpc' = "running"
  /\ UNCHANGED <<blocks, topDoc, jfResult, allErrors>>
  /\ UNCHANGED valVars /\ UNCHANGED runVars /\ UNCHANGED auxVars

\* a reference to a saved block that is in processedBlocks
JfCircular ==
  /\ running
  /\ isSavedBlock(section.resolveType)
  /\ section.resolveType \in top.processedBlocks
  /\ stack' = replaceTop(continue(
       [top EXCEPT
          !.usedSavedBlocks = @ \cup {section.resolveType},
          !.errors = Append(@, ValidationError(top.filePath, sectionPath,
                       section.resolveType,
                       <<"Circular reference detected: " \o section.resolveType>>))]))
  /\ UNCHANGED <<blocks, topDoc, jfResult, allErrors, jpc>>
  /\ UNCHANGED valVars /\ UNCHANGED runVars /\ UNCHANGED auxVars

\* a reference to a saved block whose content is not found
JfBlockNotFound ==
  /\ running
  /\ isSavedBlock(section.resolveType)
  /\ section.resolveType \notin top.processedBlocks
  /\ Len(getSavedBlockContent(section.resolveType)) = 0
  /\ stack' = replaceTop(continue(
       [top EXCEPT
          !.usedSavedBlocks = @ \cup {section.resolveType},
          !.errors = Append(withExtraPropsError(top),
                       ValidationError(top.filePath, sectionPath,
                         section.resolveType,
                         <<"Saved block not found: " \o section.resolveType>>))]))
  /\ UNCHANGED <<blocks, topDoc, jfResult, allErrors, jpc>>
  /\ UNCHANGED valVars /\ UNCHANGED runVars /\ UNCHANGED auxVars

\* a reference to a saved block that is expanded: the recursive call
JfExpand ==
  /\ running
  /\ isSavedBlock(section.resolveType)
  /\ section.resolveType \notin top.processedBlocks
  /\ Len(getSavedBlockContent(section.resolveType)) = 1
  /\ stack' = Append(
       replaceTop([top EXCEPT
          !.usedSavedBlocks = @ \cup {section.resolveType},
          !.errors = withExtraPropsError(top),
          !.processedBlocks = callerProcessedBlocks(@, section.resolveType)]),
       newActivation(".deco/blocks/" \o blockNameToFileName(section.resolveType),
                     getSavedBlockContent(section.resolveType)[1],
                     newProcessedBlocks(top.processedBlocks, section.resolveType)))
  /\ UNCHANGED <<blocks, topDoc, jfResult, allErrors, jpc>>
  /\ UNCHANGED valVars /\ UNCHANGED runVars /\ UNCHANGED auxVars

\* a section of the site: not found, raising, or validated
JfSection ==
  /\ running
  /\ ~isSavedBlock(section.resolveType)
  /\ stack' = replaceTop(
       IF ~sectionContentFound(section.resolveType)
         THEN continue(
           [top EXCEPT
              !.unresolvedResolveTypes =
                 Append(@, [file |-> top.filePath, sectionPath |-> sectionPath,
                            resolveType |-> section.resolveType]),
              !.errors = Append(@, ValidationError(top.filePath, sectionPath,
                           section.resolveType,
                           <<"Section not found: " \o section.resolveType>>))])
       ELSE IF sectionProcessingRaises(section.resolveType)
         THEN raise(top, "sections", "Invalid regular expression")
       ELSE IF Len(validationMessages(section.resolveType)) > 0
         THEN continue(
           [top EXCEPT
              !.errors = Append(@, ValidationError(top.filePath, sectionPath,
                           section.resolveType,
                           validationMessages(section.resolveType)))])
       ELSE continue(top))
  /\ UNCHANGED <<blocks, topDoc, jfResult, allErrors, jpc>>
  /\ UNCHANGED valVars /\ UNCHANGED runVars /\ UNCHANGED auxVars

\* the activation ends.  It returns { errors, unresolvedResolveTypes,
\* usedSavedBlocks } to the caller of the outermost call or into the
\* activation that was expanding a block; an exception that left it is
\* raised at the call instead
JfReturn ==
  /\ jpc = "running" /\ Len(stack) > 0 /\ top.finished
  /\ IF Len(stack) = 1
       THEN /\ jfResult' = IF top.raised THEN jfResult
                           ELSE [errors |-> top.errors,
                                 unresolvedResolveTypes |-> top.unresolvedResolveTypes,
                                 usedSavedBlocks |-> top.usedSavedBlocks]
            /\ stack' = <<>>
            /\ jpc' = IF top.raised THEN "thrown" ELSE "done"
       ELSE /\ LET caller == stack[Len(stack) - 1]
                   ref == caller.sections[caller.idx + 1]
               IN stack' = Append(SubSeq(stack, 1, Len(stack) - 2),
                    IF top.raised
                      THEN raise(caller, "call", "Unexpected token")
                      ELSE continue(
                        [caller EXCEPT
                           !.usedSavedBlocks = @ \cup top.usedSavedBlocks,
                           !.unresolvedResolveTypes = @ \o top.unresolvedResolveTypes,
                           !.errors = @ \o relabel(top.errors, 1, caller.filePath,
                                                   join(ref.path, "."))]))
            /\ UNCHANGED <<jfResult, jpc>>
  /\ UNCHANGED <<blocks, topDoc, allErrors>>
  /\ UNCHANGED valVars /\ UNCHANGED runVars /\ UNCHANGED auxVars

\* the caller's loop: allErrors.push(...result.errors)
MainCollect ==
  /\ jpc = "done"
  /\ allErrors' = allErrors \o jfResult.errors
  /\ jpc' = "collected"
  /\ UNCHANGED <<blocks, topDoc, stack, jfResult>>
  /\ UNCHANGED valVars /\ UNCHANGED runVars /\ UNCHANGED auxVars

NextJf ==
  \/ JfCall
  \/ JfCircular
  \/ JfBlockNotFound
  \/ JfExpand
  \/ JfSection
  \/ JfReturn
  \/ MainCollect

InitJf == InitJfWith(TopContents)

SpecJsonFile == InitJf /\ [][NextJf]_vars

\* The reference graphs of the saved blocks, under a document that refers
\* to saved blocks.  An activation that can take a step takes it: the code
\* runs to completion.
InitJfGraph == InitJfWith(GraphTopContents)

SpecJsonFileFair == InitJfGraph /\ [][NextJf]_vars /\ WF_vars(NextJf)

(***************************************************************************)
(* Claims about validateValue, checked under SpecValidate.                 *)
(***************************************************************************)
Errors(is)   == SelectSeq(is, LAMBDA e : e.severity = "error")
Warnings(is) == SelectSeq(is, LAMBDA e : e.severity = "warning")
IssuePaths(is) == {is[i].path : i \in 1..Len(is)}
CountAt(is, p) == Cardinality({i \in 1..Len(is) : is[i].path = p})
OneErrorAt(is, p) ==
  Len(is) = 1 /\ is[1].path = p /\ is[1].severity = "error"
IsPlainObject(v) == v.t = "object"

\* C1: an absent value yields exactly one error at the path when the schema
\* is not optional and no issue when it is optional, for every kind of schema.
C1_AbsentValue ==
  (vpc = "done" /\ value = Undefined) =>
    IF schema.optional THEN issues = <<>> ELSE OneErrorAt(issues, path)

C1_Witness ==
  /\ vpc = "done" /\ value = Undefined
  /\ schema.kind = "any" /\ ~schema.optional
  /\ OneErrorAt(issues, path)

\* C2: a present value passes a union with zero issues when some member
\* validates it with zero issues (or the union has no member); otherwise the
\* result is exactly one error at the union's own path.
C2_Union ==
  (vpc = "done" /\ schema.kind = "union" /\ value # Undefined) =>
    LET members == schema.unionTypes
        clean == \E i \in 1..Len(members) :
                   validateValue(value, members[i], path, ignoreUnusedProps) = <<>>
    IN IF Len(members) = 0 \/ clean
         THEN issues = <<>>
         ELSE OneErrorAt(issues, path)

C2_Witness ==
  /\ vpc = "done" /\ schema.kind = "union" /\ value.t = "object"
  /\ Len(schema.unionTypes) = 2
  /\ schema.unionTypes[2].kind = "object"
  /\ Len(validateValue(value, schema.unionTypes[2], path, ignoreUnusedProps)) > 1
  /\ OneErrorAt(issues, path)

\* the object nodes reached from (v, s, p) through object and array schemas
RECURSIVE ObjectNodes(_, _, _)
ObjectNodes(v, s, p) ==
  IF s.kind = "object" /\ IsPlainObject(v)
    THEN {<<v, s, p>>}
         \cup UNION { ObjectNodes(getProp(v, s.properties[i][1]), s.properties[i][2],
                                  IF p = "" THEN s.properties[i][1]
                                  ELSE p \o "." \o s.properties[i][1])
                      : i \in 1..Len(s.properties) }
  ELSE IF s.kind = "array" /\ isArray(v) /\ Len(s.elementType) = 1
    THEN UNION { ObjectNodes(v.items[i], s.elementType[1],
                             p \o "[" \o IndexText(i - 1) \o "]")
                 : i \in 1..Len(v.items) }
  ELSE {}

UndeclaredKeys(n) ==
  {k \in SeqRange(ObjectKeys(n[1])) : k \notin PropNames(n[2])}
KeyPath(n, k) == IF n[3] = "" THEN k ELSE n[3] \o "." \o k
ReservedKey(k) == Len(k) >= 2 /\ SubSeq(k, 1, 2) = "__"

ExpectedWarningPaths ==
  UNION { { KeyPath(n, k) : k \in {u \in UndeclaredKeys(n) : ~ReservedKey(u)} }
          : n \in ObjectNodes(value, schema, path) }

\* C3: with ignoreUnknownProperties=false there is exactly one warning, at the
\* key's path, for each undeclared key without the reserved prefix '__' of each
\* object reached through object and array schemas; reserved keys produce no
\* issue; with ignoreUnknownProperties=true there is no warning.
C3_ExtraProperties ==
  (vpc = "done" /\ schema.kind \in {"object", "array"}) =>
    /\ ignoreUnusedProps => Warnings(issues) = <<>>
    /\ ~ignoreUnusedProps =>
         /\ IssuePaths(Warnings(issues)) = ExpectedWarningPaths
         /\ Len(Warnings(issues)) = Cardinality(ExpectedWarningPaths)
    /\ \A n \in ObjectNodes(value, schema, path) :
         \A k \in UndeclaredKeys(n) :
           ReservedKey(k) => CountAt(issues, KeyPath(n, k)) = 0

C3_Witness ==
  /\ vpc = "done" /\ schema.kind = "object" /\ IsPlainObject(value)
  /\ ~ignoreUnusedProps
  /\ hasKey(value, "__resolveType")
  /\ Cardinality(ObjectNodes(value, schema, path)) >= 3
  /\ Len(Warnings(issues)) >= 2
  /\ \E w \in ExpectedWarningPaths : w = "root.name[0].extra"

\* the issues of the declared properties props[i..] of object v, in order
RECURSIVE DeclaredPropertyIssues(_, _, _, _, _)
DeclaredPropertyIssues(v, props, i, p, ign) ==
  IF i > Len(props)
    THEN <<>>
    ELSE validateValue(IF hasKey(v, props[i][1])
                         THEN getProp(v, props[i][1]) ELSE Undefined,
                       props[i][2],
                       IF p = "" THEN props[i][1] ELSE p \o "." \o props[i][1],
                       ign)
         \o DeclaredPropertyIssues(v, props, i + 1, p, ign)

\* C4: for an object schema, a value that is null, an array or a non-object
\* yields exactly one error at the object's path; otherwise every declared
\* property is validated against the value's field (undefined when absent) at
\* <path>.<name> (<name> when the path is empty): a missing required property
\* yields exactly one error at its path and a missing optional property none.
C4_Object ==
  (vpc = "done" /\ schema.kind = "object" /\ value # Undefined) =>
    IF ~IsPlainObject(value)
      THEN OneErrorAt(issues, path)
      ELSE LET declared == DeclaredPropertyIssues(value, schema.properties, 1,
                                                  path, ignoreUnusedProps)
           IN /\ Len(issues) >= Len(declared)
              /\ SubSeq(issues, 1, Len(declared)) = declared
              /\ \A j \in (Len(declared) + 1)..Len(issues) :
                   issues[j].severity = "warning"
              /\ \A i \in 1..Len(schema.properties) :
                   LET name == schema.properties[i][1]
                       at == IF path = "" THEN name ELSE path \o "." \o name
                   IN ~hasKey(value, name) =>
                        /\ CountAt(issues, at) =
                             (IF schema.properties[i][2].optional THEN 0 ELSE 1)
                        /\ \A j \in 1..Len(issues) :
                             issues[j].path = at => issues[j].severity = "error"

C4_Witness ==
  /\ vpc = "done" /\ schema.kind = "object" /\ IsPlainObject(value)
  /\ path = "" /\ Len(schema.properties) = 2
  /\ ~hasKey(value, "name") /\ ~hasKey(value, "extra")
  /\ ~schema.properties[1][2].optional /\ schema.properties[2][2].optional
  /\ CountAt(issues, "name") = 1 /\ CountAt(issues, "extra") = 0

\* the issues of the elements items[i..] of an array, in index order
RECURSIVE ElementIssues(_, _, _, _, _)
ElementIssues(items, i, elem, p, ign) ==
  IF i > Len(items)
    THEN <<>>
    ELSE validateValue(items[i], elem, p \o "[" \o IndexText(i - 1) \o "]", ign)
         \o ElementIssues(items, i + 1, elem, p, ign)

\* C5: for an array schema with an element type and an array value the issues
\* are the concatenation, in index order, of the issues of each element i at
\* <path>[i]; an empty array yields none; a value that is neither an array nor
\* an object carrying the discriminator yields exactly one error at the path.
C5_Array ==
  (vpc = "done" /\ schema.kind = "array" /\ Len(schema.elementType) = 1
     /\ value # Undefined) =>
    IF isArray(value)
      THEN issues = ElementIssues(value.items, 1, schema.elementType[1], path,
                                  ignoreUnusedProps)
    ELSE IF ~(IsPlainObject(value) /\ hasKey(value, "__resolveType"))
      THEN OneErrorAt(issues, path)
    ELSE TRUE

C5_Witness ==
  /\ vpc = "done" /\ schema.kind = "array" /\ Len(schema.elementType) = 1
  /\ isArray(value) /\ Len(value.items) = 2 /\ path = "root"
  /\ Len(issues) >= 2
  /\ issues[1].path = "root[0]" /\ issues[Len(issues)].path = "root[1]"

\* C6: for an array schema, a non-null, non-array object carrying the key
\* '__resolveType' is accepted with zero issues, whatever the discriminator's
\* value and whatever other keys the object has.
C6_DeferredReference ==
  (vpc = "done" /\ schema.kind = "array" /\ IsPlainObject(value)
     /\ "__resolveType" \in SeqRange(ObjectKeys(value))) =>
    issues = <<>>

C6_Witness ==
  /\ vpc = "done" /\ schema.kind = "array" /\ Len(schema.elementType) = 1
  /\ IsPlainObject(value) /\ Len(value.entries) = 3
  /\ typeof(getProp(value, "__resolveType")) # "string"
  /\ issues = <<>>

(***************************************************************************)
(* Claims about a run of main, checked under SpecRun.                      *)
(***************************************************************************)
AllOccurrences ==
  UNION { SeqRange(results[i].occurrences) : i \in 1..Len(results) }

ErrorIssueProduced ==
  \E occ \in AllOccurrences :
    \E k \in 1..Len(occ.errors) : occ.errors[k].severity = "error"

WarningIssueProduced ==
  \E occ \in AllOccurrences :
    \E k \in 1..Len(occ.warnings) : occ.warnings[k].severity = "warning"

UnusedComponentReported ==
  \E i \in 1..Len(results) : results[i].unused

TargetMissing == targetMode /\ ~targetExists

OccurrencesExpected(r, d) ==
  LET sf == CHOOSE f \in SeqRange(filesToValidate) : f.file = r.sectionFile
  IN SeqRange(occurrencesIn(d, r.resolveType, sf.schema, includeUnusedVars))

\* every occurrence in a document that parses is found and validated
C8_OtherDocumentsScanned ==
  \A i \in 1..Len(results) : \A j \in 1..Len(docs) :
    docs[j].parses =>
      OccurrencesExpected(results[i], docs[j]) \subseteq SeqRange(results[i].occurrences)

\* a document that does not parse has an issue reported for it
C8_FailureReported ==
  \A i \in 1..Len(results) : \A j \in 1..Len(docs) :
    ~docs[j].parses =>
      \E occ \in SeqRange(results[i].occurrences) :
        occ.jsonFile = docs[j].name /\ Len(occ.errors) + Len(occ.warnings) > 0

\* C8: when the occurrences of a component are collected over the documents
\* of the blocks directory, a document that cannot be parsed affects only
\* its own contribution: the occurrences in every other document, those
\* visited after it included, are found and validated, and the failure is
\* reported as an issue for the failing document.
C8_ParseFailureIsolated ==
  C8_OtherDocumentsScanned /\ C8_FailureReported

(***************************************************************************)
(* Claims about validateJsonFile, checked under SpecJsonFile and           *)
(* SpecJsonFileFair.                                                       *)
(***************************************************************************)
IsFailureEntry(e) ==
  Len(e.errors) = 1 /\ startsWith(e.errors[1], "Error processing JSON: ")

\* the entries that describe the failure of the document itself: those the
\* catch block of the outermost activation pushes (an entry taken over from
\* a saved block has " -> " in its sectionPath)
OwnFailures(errs) ==
  { i \in 1..Len(errs) :
      IsFailureEntry(errs[i]) /\ errs[i].file = TopFile
      /\ errs[i].sectionPath = "" /\ errs[i].resolveType = "" }

TopSections == findSectionsInJson(topDoc.json, <<>>)

\* a step of processing the document raises
TopRaises ==
  /\ topDoc.parses
  /\ \E i \in 1..Len(TopSections) :
       /\ ~isSavedBlock(TopSections[i].resolveType)
       /\ sectionContentFound(TopSections[i].resolveType)
       /\ sectionProcessingRaises(TopSections[i].resolveType)

returned == jpc \in {"done", "collected"}

\* C9: validateJsonFile never throws.  When the document's content is not
\* valid JSON the returned errors are exactly one entry for that file that
\* describes the failure; when a step of processing it raises, the returned
\* errors hold exactly one such entry, after the entries pushed before; and
\* the caller's loop goes on with the result.
C9_NeverThrows ==
  /\ jpc # "thrown"
  /\ returned =>
       /\ ~topDoc.parses =>
            jfResult.errors =
              <<ValidationError(TopFile, "", "",
                                <<"Error processing JSON: Unexpected token">>)>>
       /\ TopRaises =>
            OwnFailures(jfResult.errors) = {Len(jfResult.errors)}
       /\ (topDoc.parses /\ ~TopRaises) => OwnFailures(jfResult.errors) = {}
  /\ jpc = "collected" => allErrors = jfResult.errors

C9_Witness ==
  /\ jpc = "collected" /\ TopRaises
  /\ Len(allErrors) = 3
  /\ IsFailureEntry(allErrors[2]) /\ allErrors[2].sectionPath # ""
  /\ OwnFailures(allErrors) = {3}

IsCircularEntry(e) ==
  Len(e.errors) = 1 /\ startsWith(e.errors[1], "Circular reference detected: ")

\* the references of the sections from the i-th on that close a cycle, in
\* the unfolding of the document under the in-progress set inProgress; the
\* loop of an activation stops at a section that raises
RECURSIVE CycleClosingReferences(_, _, _)
CycleClosingReferences(sections, i, inProgress) ==
  IF i > Len(sections) THEN 0
  ELSE LET rt == sections[i].resolveType IN
    IF isSavedBlock(rt)
      THEN (IF rt \in inProgress THEN 1
            ELSE IF rt \in DOMAIN blocks /\ blocks[rt].exists /\ blocks[rt].parses
              THEN CycleClosingReferences(
                     findSectionsInJson(blocks[rt].json, <<>>), 1,
                     inProgress \cup {rt})
            ELSE 0)
           + CycleClosingReferences(sections, i + 1, inProgress)
    ELSE IF sectionContentFound(rt) /\ sectionProcessingRaises(rt) THEN 0
    ELSE CycleClosingReferences(sections, i + 1, inProgress)

\* the saved blocks the activations below the k-th are expanding
Chain(k) ==
  { stack[j].sections[stack[j].idx + 1].resolveType : j \in 1..(k - 1) }

\* processedBlocks of every activation is the chain of blocks in progress,
\* each block at most once in it
ChainInProgress ==
  /\ \A k \in 1..Len(stack) : stack[k].processedBlocks = Chain(k)
  /\ \A j, k \in 1..(Len(stack) - 1) :
       j # k => stack[j].sections[stack[j].idx + 1].resolveType
                  # stack[k].sections[stack[k].idx + 1].resolveType
  /\ Len(stack) <= Cardinality(BlockNames) + 1

\* a reference to a block in progress is not expanded and adds one error
CircularNotExpanded ==
  (running /\ isSavedBlock(section.resolveType)
     /\ section.resolveType \in top.processedBlocks) =>
    /\ Len(stack') = Len(stack)
    /\ top'.idx = top.idx + 1
    /\ top'.errors =
         Append(top.errors,
                ValidationError(top.filePath, sectionPath, section.resolveType,
                  <<"Circular reference detected: " \o section.resolveType>>))

\* C10: whatever the reference graph of the saved blocks, validateJsonFile
\* terminates; a reference to a saved block that is in the in-progress set
\* of the current chain is never expanded and yields exactly one 'Circular
\* reference detected' error, so the result holds exactly one such error
\* per cycle-closing reference.
C10_CircularReferences ==
  /\ <>(jpc = "collected")
  /\ [](ChainInProgress)
  /\ [][CircularNotExpanded]_vars
  /\ [](returned =>
          Cardinality({ i \in 1..Len(jfResult.errors) :
                          IsCircularEntry(jfResult.errors[i]) })
            = CycleClosingReferences(TopSections, 1, {}))

C10_Witness ==
  /\ jpc = "done"
  /\ \E i \in 1..Len(jfResult.errors) :
       /\ jfResult.errors[i].errors = <<"Circular reference detected: A">>
       /\ jfResult.errors[i].file = TopFile
       /\ jfResult.errors[i].sectionPath
            = "sections.[1] -> sections.[1] -> sections.[0]"

\* the saved blocks the document of block b refers to
BlockReferences(b) ==
  IF b \in DOMAIN blocks /\ blocks[b].exists /\ blocks[b].parses
    THEN { s.resolveType : s \in { x \in SeqRange(findSectionsInJson(blocks[b].json, <<>>)) :
                                     isSavedBlock(x.resolveType) } }
    ELSE {}

\* the blocks reached from b through one or more references
RECURSIVE ReachedFrom(_, _)
ReachedFrom(frontier, seen) ==
  LET next == UNION { BlockReferences(b) : b \in frontier } \ seen
  IN IF next = {} THEN seen ELSE ReachedFrom(next, seen \cup next)

ReferencesItself(b) == b \in ReachedFrom({b}, {})

\* a step at a reference to a saved block: the block is expanded unless it
\* is an ancestor on the chain or its content is not found, and the step
\* adds a circular-reference error only for an ancestor
ExpandedUnlessAncestor ==
  (running /\ isSavedBlock(section.resolveType)) =>
    LET depth == Len(stack)
        added == SubSeq(stack'[depth].errors, Len(top.errors) + 1,
                        Len(stack'[depth].errors))
    IN IF section.resolveType \in Chain(depth)
         THEN Len(stack') = depth
       ELSE /\ \A i \in 1..Len(added) : ~IsCircularEntry(added[i])
            /\ stack'[depth].processedBlocks = top.processedBlocks
            /\ IF Len(getSavedBlockContent(section.resolveType)) = 1
                 THEN /\ Len(stack') = depth + 1
                      /\ stack'[depth + 1].processedBlocks
                           = Chain(depth) \cup {section.resolveType}
                 ELSE Len(stack') = depth

\* C11: the in-progress set is copied when extended and never mutated in
\* place: the set of every activation stays the chain of its ancestors, a
\* reference to a block that is not an ancestor is expanded (a second
\* sibling reference to the same block included) without a
\* circular-reference error, and a circular-reference error names a block
\* that is its own ancestor.
C11_CopyOnExtend ==
  /\ [](\A k \in 1..Len(stack) : stack[k].processedBlocks = Chain(k))
  /\ [][ExpandedUnlessAncestor]_vars
  /\ [](returned =>
          \A i \in 1..Len(jfResult.errors) :
            IsCircularEntry(jfResult.errors[i]) =>
              ReferencesItself(jfResult.errors[i].resolveType))

\* the second of two sibling references to block A is being expanded
C11_Witness ==
  /\ jpc = "running" /\ Len(stack) = 2
  /\ Len(stack[1].sections) = 2 /\ stack[1].idx = 1
  /\ stack[1].sections[1].resolveType = "A"
  /\ stack[1].sections[2].resolveType = "A"
  /\ ~ReferencesItself("A")
  /\ stack[2].processedBlocks = {"A"}
  /\ \A i \in 1..Len(stack[1].errors) : ~IsCircularEntry(stack[1].errors[i])

ExtraPropsPrefix == "Saved block should not have extra properties. Found: "

\* the references to saved blocks that activation k has dealt with: the
\* sections its loop has finished and the one it is expanding
HandledReferences(k) ==
  { j \in 1..Len(stack[k].sections) :
      /\ j <= stack[k].idx + (IF k < Len(stack) THEN 1 ELSE 0)
      /\ isSavedBlock(stack[k].sections[j].resolveType) }

\* the extra-properties entries activation k holds for its j-th section
ExtraPropsEntries(k, j) ==
  { i \in 1..Len(stack[k].errors) :
      /\ stack[k].errors[i].sectionPath = join(stack[k].sections[j].path, ".")
      /\ Len(stack[k].errors[i].errors) = 1
      /\ startsWith(stack[k].errors[i].errors[1], ExtraPropsPrefix) }

\* C12: a reference to a saved block that carries any property besides the
\* discriminator yields exactly one 'Saved block should not have extra
\* properties' error for that reference, naming those properties, and a
\* reference carrying only the discriminator yields none.
C12_ExtraPropertiesReported ==
  \A k \in 1..Len(stack) : \A j \in HandledReferences(k) :
    LET keys == ObjectKeys(stack[k].sections[j].props) IN
      /\ Cardinality(ExtraPropsEntries(k, j)) = (IF Len(keys) > 0 THEN 1 ELSE 0)
      /\ \A i \in ExtraPropsEntries(k, j) :
           stack[k].errors[i].errors = <<ExtraPropsPrefix \o join(keys, ", ")>>

\* the nodes of v whose discriminator is target and that lie in the subtree
\* of no other such node
RECURSIVE OutermostMatches(_, _)
OutermostMatches(v, target) ==
  IF typeof(v) # "object" \/ v.t = "null" THEN 0
  ELSE IF isArray(v)
    THEN IF Len(v.items) = 0 THEN 0
         ELSE OutermostMatches(v.items[1], target)
              + OutermostMatches(ArrV(Tail(v.items)), target)
  ELSE IF hasKey(v, "__resolveType") /\ getProp(v, "__resolveType") = StrV(target)
    THEN 1
  ELSE IF Len(v.entries) = 0 THEN 0
  ELSE OutermostMatches(v.entries[1][2], target)
       + OutermostMatches(ObjV(Tail(v.entries)), target)

OccurrencesOf(r, name) ==
  { k \in 1..Len(r.occurrences) : r.occurrences[k].jsonFile = name }

\* C13: in the scan of a document for one target, a node whose
\* discriminator equals the target is recorded as an occurrence and its
\* subtree is not searched further: a node with the target's discriminator
\* nested inside a matched node produces no additional occurrence.
C13_MatchedSubtreeNotSearched ==
  \A i \in 1..Len(results) : \A j \in 1..Len(docs) :
    docs[j].parses =>
      Cardinality(OccurrencesOf(results[i], docs[j].name))
        <= OutermostMatches(docs[j].json, results[i].resolveType)

(***************************************************************************)
(* SpecFindSections: calls of findSectionsInJson on arbitrary documents.   *)
(* A document is a tree of at most three levels of objects and arrays; a   *)
(* node carries a local, a saved-block, an external, a numeric or an       *)
(* object-valued discriminator, or none.                                   *)
(***************************************************************************)
LocalNode == ObjV(<< <<"__resolveType", StrV("site/s.tsx")>> >>)

Discriminators ==
  {StrV("site/s.tsx"), StrV("A"), StrV("website/x.ts"), NumV(1), LocalNode}

NodeWith(d, fields) == ObjV(<< <<"__resolveType", d>> >> \o fields)

JsonLeaves ==
  {StrV("x"), Null, ObjV(<<>>)} \cup { NodeWith(d, <<>>) : d \in Discriminators }

JsonInner ==
  JsonLeaves \cup { ArrV(xs) : xs \in SeqsUpTo(JsonLeaves, MaxArrayLen) }

JsonNodes ==
  { ObjV(<< <<"a", c>> >>) : c \in JsonInner }
  \cup { NodeWith(d, << <<"a", c>> >>) : d \in Discriminators, c \in JsonInner }

JsonTrees ==
  JsonInner \cup JsonNodes
  \cup { ObjV(<< <<"b", StrV("x")>>, <<"c", n>> >>) : n \in JsonNodes }
  \cup { ObjV(<< <<"b", StrV("x")>>, <<"__resolveType", d>>, <<"c", n>> >>) :
           d \in Discriminators, n \in JsonNodes }

InitFindSections ==
  /\ ValIdle /\ RunIdle /\ JfIdle /\ AuxIdle

CallFindSectionsInJson ==
  \E obj \in JsonTrees :
    /\ apc = "idle" /\ apc' = "returned"
    /\ jsonInput' = obj
    /\ foundSections' = findSectionsInJson(obj, <<>>)
    /\ UNCHANGED <<identifier, category, exVars, moreVars>>
    /\ UNCHANGED valVars /\ UNCHANGED runVars /\ UNCHANGED jfVars

NextFindSections == CallFindSectionsInJson

SpecFindSections == InitFindSections /\ [][NextFindSections]_vars

(***************************************************************************)
(* SpecClassify: calls of isSavedBlock, isAppSection and shouldIgnore on   *)
(* arbitrary identifiers.                                                  *)
(***************************************************************************)
IdentifierPrefixes == {"", "site/", "website/", "a/", "a.b/", "/"}

IdentifierStems == {"", "x", "resolved", "x.y", "Site"}

IdentifierSuffixes == {"", ".ts", ".tsx", ".", ".tsx/", ".json", ".ts/x"}

Identifiers ==
  { p \o s \o x :
      p \in IdentifierPrefixes, s \in IdentifierStems, x \in IdentifierSuffixes }

InitClassify ==
  /\ ValIdle /\ RunIdle /\ JfIdle /\ AuxIdle

CallClassify ==
  \E resolveType \in Identifiers :
    /\ apc = "idle" /\ apc' = "returned"
    /\ identifier' = resolveType
    /\ category' = [savedBlock |-> isSavedBlock(resolveType),
                    appSection |-> isAppSection(resolveType),
                    ignored    |-> shouldIgnore(resolveType)]
    /\ UNCHANGED <<jsonInput, foundSections, exVars, moreVars>>
    /\ UNCHANGED valVars /\ UNCHANGED runVars /\ UNCHANGED jfVars

NextClassify == CallClassify

SpecClassify == InitClassify /\ [][NextClassify]_vars

(***************************************************************************)
(* C14.  The object nodes of a document, each with its path: the document  *)
(* itself, the items of an array, and the values of every field of an      *)
(* object node other than its discriminator.                               *)
(***************************************************************************)
RECURSIVE NodesUnder(_, _)
NodesUnder(v, p) ==
  IF v.t = "array"
    THEN UNION { NodesUnder(v.items[i], Append(p, "[" \o IndexText(i - 1) \o "]")) :
                   i \in 1..Len(v.items) }
  ELSE IF v.t = "object"
    THEN {[node |-> v, path |-> p]}
         \cup UNION { NodesUnder(e[2], Append(p, e[1])) :
                        e \in { x \in SeqRange(v.entries) : x[1] # "__resolveType" } }
  ELSE {}

HasStringDiscriminator(n) ==
  hasKey(n, "__resolveType") /\ getProp(n, "__resolveType").t = "string"

IsSectionNode(n) ==
  /\ HasStringDiscriminator(n)
  /\ \/ startsWith(getProp(n, "__resolveType").s, "site/")
     \/ isSavedBlock(getProp(n, "__resolveType").s)

IsPropertyBagOf(props, n) ==
  /\ props.t = "object"
  /\ SeqRange(ObjectKeys(props)) = SeqRange(ObjectKeys(n)) \ {"__resolveType"}
  /\ Len(props.entries) = Cardinality(SeqRange(ObjectKeys(props)))
  /\ \A k \in SeqRange(ObjectKeys(props)) : getProp(props, k) = getProp(n, k)

FoundAt(p) == { i \in 1..Len(foundSections) : foundSections[i].path = p }

\* C14: findSectionsInJson returns exactly the object nodes whose string
\* discriminator is a local or a saved-block identifier, each once, with its
\* path, its discriminator and its fields without the discriminator; a node
\* with an external or a non-string discriminator is not returned, and the
\* nodes under its other fields are.
C14_FindSections ==
  LET nodes == NodesUnder(jsonInput, <<>>) IN
  /\ \A n \in nodes :
       IF IsSectionNode(n.node)
         THEN /\ Cardinality(FoundAt(n.path)) = 1
              /\ \A i \in FoundAt(n.path) :
                   /\ foundSections[i].resolveType
                        = getProp(n.node, "__resolveType").s
                   /\ IsPropertyBagOf(foundSections[i].props, n.node)
         ELSE FoundAt(n.path) = {}
  /\ \A i \in 1..Len(foundSections) :
       \E n \in nodes : n.path = foundSections[i].path

\* a local node inside an external node inside a returned node, and a node
\* with a non-string discriminator that is passed over
C14_Witness ==
  /\ Len(foundSections) = 2
  /\ foundSections[1].path = <<>>
  /\ foundSections[2].path = <<"c", "a">>
  /\ \E n \in NodesUnder(jsonInput, <<>>) :
       /\ n.path = <<"c">>
       /\ HasStringDiscriminator(n.node)
       /\ shouldIgnore(getProp(n.node, "__resolveType").s)
  /\ foundSections[1].props.entries[1] = <<"b", StrV("x")>>

(***************************************************************************)
(* C15.  The categories of an identifier.                                  *)
(***************************************************************************)
\* the text after the last "/" of an identifier (all of it without a "/")
LastSegment(str) ==
  LET slashes == { i \in 1..Len(str) : SubSeq(str, i, i) = "/" }
      last == IF slashes = {} THEN 0
              ELSE CHOOSE i \in slashes : \A j \in slashes : j <= i
  IN SubSeq(str, last + 1, Len(str))

IsLocal(c)    == c.appSection
IsSaved(c)    == c.savedBlock
IsExternal(c) == c.ignored

CategoriesOf(c) ==
  {n \in {"local", "saved", "external"} :
     \/ n = "local" /\ IsLocal(c)
     \/ n = "saved" /\ IsSaved(c)
     \/ n = "external" /\ IsExternal(c)}

NeverSavedBlock(str) ==
  \/ str = "resolved"
  \/ startsWith(str, "site/") \/ startsWith(str, "website/")
  \/ endsWith(LastSegment(str), ".ts") \/ endsWith(LastSegment(str), ".tsx")

\* C15: an identifier is in exactly one of the categories local, saved block
\* and external; it is a saved block unless it is "resolved", starts with
\* "site/" or "website/", or has a last path segment ending in ".ts" or
\* ".tsx"; it is local iff it starts with "site/".
C15_Categories ==
  /\ Cardinality(CategoriesOf(category)) = 1
  /\ IsSaved(category) <=> ~NeverSavedBlock(identifier)
  /\ IsLocal(category) <=> startsWith(identifier, "site/")
  /\ ~(IsLocal(category) /\ IsSaved(category))

\* an identifier with ".ts" in a segment that is not its last one
C15_Witness ==
  /\ apc = "returned"
  /\ identifier = "a.b/x.ts/x"
  /\ IsSaved(category)

(***************************************************************************)
(* src/unnamed/part_010: the type extractor.  A source file is the         *)
(* sequence of its interface and type-alias declarations and the type of   *)
(* the first parameter of its default export; a type node is a record      *)
(* tagged by its syntax kind.                                              *)
(***************************************************************************)
Keyword(word)          == [k |-> "keyword", word |-> word]
ArrayT(elem)           == [k |-> "array", elementType |-> elem]
UnionT(types)          == [k |-> "union", types |-> types]
RefT(name, args)       == [k |-> "ref", typeName |-> name, typeArguments |-> args]
LiteralT(members)      == [k |-> "literal", members |-> members]
StringLit(text)        == [k |-> "stringLiteral", text |-> text]
OtherT(text)           == [k |-> "other", text |-> text]
\* a member or a parameter without a type annotation
NoType                 == [k |-> "none"]

\* a property signature: name, questionToken, @ignore JSDoc tag, type
Member(name, opt, ign, type) ==
  [name |-> name, questionToken |-> opt, ignore |-> ign, type |-> type]

InterfaceD(name, bases, members) ==
  [kind |-> "interface", name |-> name, heritage |-> bases, members |-> members]
AliasD(name, type) == [kind |-> "alias", name |-> name, type |-> type]

\* typeNode.getText(sourceFile)
RECURSIVE getText(_)
RECURSIVE typesText(_, _, _)
RECURSIVE membersText(_, _)

typesText(types, i, sep) ==
  IF i > Len(types) THEN ""
  ELSE getText(types[i])
       \o (IF i < Len(types) THEN sep ELSE "")
       \o typesText(types, i + 1, sep)

membersText(members, i) ==
  IF i > Len(members) THEN ""
  ELSE members[i].name
       \o (IF members[i].questionToken THEN "?" ELSE "")
       \o (IF members[i].type = NoType THEN ""
           ELSE ": " \o getText(members[i].type))
       \o "; " \o membersText(members, i + 1)

getText(typeNode) ==
  CASE typeNode.k = "keyword" -> typeNode.word
    [] typeNode.k = "array"   -> getText(typeNode.elementType) \o "[]"
    [] typeNode.k = "union"   -> typesText(typeNode.types, 1, " | ")
    [] typeNode.k = "ref"     ->
         IF typeNode.typeArguments = <<>> THEN typeNode.typeName
         ELSE typeNode.typeName \o "<"
              \o typesText(typeNode.typeArguments, 1, ", ") \o ">"
    [] typeNode.k = "literal" -> "{ " \o membersText(typeNode.members, 1) \o "}"
    [] typeNode.k = "stringLiteral" -> "\"" \o typeNode.text \o "\""
    [] OTHER -> typeNode.text

\* a call deeper than the engine's stack: RangeError, thrown through every
\* caller up to the catch of extractPropsInterface
RangeError == [kind |-> "RangeError"]
threw(s)   == s.kind = "RangeError"

specialTypes ==
  {"ImageWidget", "RichText", "Color", "DateWidget", "DateTimeWidget",
   "Product", "ProductListingPage", "ProductDetailsPage"}

\* the first declaration of a kind with a name; 0 when there is none
declarationByName(decls, kind, typeName) ==
  LET hits == { i \in 1..Len(decls) :
                  decls[i].kind = kind /\ decls[i].name = typeName }
  IN IF hits = {} THEN 0 ELSE CHOOSE i \in hits : \A j \in hits : i <= j

resolveInterfaceByName(decls, typeName) ==
  declarationByName(decls, "interface", typeName)

resolveTypeAliasByName(decls, typeName) ==
  declarationByName(decls, "alias", typeName)

\* a slip: a key already present keeps its first schema
assign_KeepFirst(props, key, s) ==
  IF \E i \in 1..Len(props) : props[i][1] = key
    THEN props
    ELSE Append(props, <<key, s>>)

\* properties[key] = schema on a record that keeps insertion order
assign(props, key, s) ==
  IF \E i \in 1..Len(props) : props[i][1] = key
    THEN [i \in 1..Len(props) |->
            IF props[i][1] = key THEN <<key, s>> ELSE props[i]]
    ELSE Append(props, <<key, s>>)

\* Object.assign(properties, source)
RECURSIVE assignAll(_, _, _)
assignAll(props, source, i) ==
  IF i > Len(source) THEN props
  ELSE assignAll(assign(props, source[i][1], source[i][2]), source, i + 1)

propertyOf(props, key) ==
  (CHOOSE e \in SeqRange(props) : e[1] = key)[2]

hasProperty(props, key) == \E e \in SeqRange(props) : e[1] = key

RECURSIVE extractLiteralKeys(_)
RECURSIVE extractLiteralKeysOf(_, _)
extractLiteralKeysOf(types, i) ==
  IF i > Len(types) THEN <<>>
  ELSE extractLiteralKeys(types[i]) \o extractLiteralKeysOf(types, i + 1)

extractLiteralKeys(typeNode) ==
  IF typeNode.k = "stringLiteral" THEN <<typeNode.text>>
  ELSE IF typeNode.k = "union" THEN extractLiteralKeysOf(typeNode.types, 1)
  ELSE <<>>

\* for (const key of omittedKeys) delete properties[key]
omitProperties(props, keys) ==
  SelectSeq(props, LAMBDA e : e[1] \notin SeqRange(keys))

\* a slip: every property of the base is kept
pickProperties_AllOfBase(baseProps, keys, i, props) == baseProps

\* for (const key of pickedKeys) if (base[key]) properties[key] = base[key]
RECURSIVE pickProperties(_, _, _, _)
pickProperties(baseProps, keys, i, props) ==
  IF i > Len(keys) THEN props
  ELSE pickProperties(baseProps, keys, i + 1,
         IF hasProperty(baseProps, keys[i])
           THEN assign(props, keys[i], propertyOf(baseProps, keys[i]))
           ELSE props)

\* properties[key] = { ...schema, optional: true }
partialProperties(props) ==
  [i \in 1..Len(props) |-> <<props[i][1], [props[i][2] EXCEPT !.optional = TRUE]>>]

\* extractPropsInterface returning null
NoSchema == [kind |-> "null"]

RECURSIVE resolveTypeNode(_, _, _, _, _)
RECURSIVE resolveTypeNodeTry(_, _, _, _, _)
RECURSIVE resolveUnionTypes(_, _, _, _, _, _)
RECURSIVE buildValidationSchema(_, _, _, _)
RECURSIVE heritageProperties(_, _, _, _, _, _)
RECURSIVE memberProperties(_, _, _, _, _, _)
RECURSIVE resolveOmitType(_, _, _, _, _)
RECURSIVE resolvePickType(_, _, _, _, _)
RECURSIVE resolvePartialType(_, _, _, _, _)

\* the loop over clause.types of buildValidationSchema; the object schema of
\* the properties gathered, or RangeError
heritageProperties(bases, i, props, decls, processing, depth) ==
  IF i > Len(bases) THEN ObjectS(props, FALSE)
  ELSE LET baseInterface == resolveInterfaceByName(decls, bases[i]) IN
       IF baseInterface = 0
         THEN heritageProperties(bases, i + 1, props, decls, processing, depth)
       ELSE LET baseSchema ==
                  buildValidationSchema(decls[baseInterface], decls,
                                        processing, depth)
            IN IF threw(baseSchema) THEN RangeError
               ELSE heritageProperties(bases, i + 1,
                      assignAll(props, baseSchema.properties, 1),
                      decls, processing, depth)

\* the loop over the members of an interface or of a type literal
memberProperties(members, i, props, decls, processing, depth) ==
  IF i > Len(members) THEN ObjectS(props, FALSE)
  ELSE IF members[i].ignore
    THEN memberProperties(members, i + 1, props, decls, processing, depth)
  ELSE LET propertySchema ==
             resolveTypeNode(members[i].type, members[i].questionToken,
                             decls, processing, depth)
       IN IF threw(propertySchema) THEN RangeError
          ELSE memberProperties(members, i + 1,
                 assign(props, members[i].name, propertySchema),
                 decls, processing, depth)

\* the schema it returns has no optional field, which reads as false
buildValidationSchema(interfaceDecl, decls, processing, depth) ==
  IF depth = 0 THEN RangeError
  ELSE LET inherited == heritageProperties(interfaceDecl.heritage, 1, <<>>,
                                           decls, processing, depth - 1)
       IN IF threw(inherited) THEN RangeError
          ELSE memberProperties(interfaceDecl.members, 1, inherited.properties,
                                decls, processing, depth - 1)

resolveUnionTypes(types, i, members, decls, processing, depth) ==
  IF i > Len(types) THEN UnionS(members, FALSE)
  ELSE LET t == resolveTypeNode(types[i], FALSE, decls, processing, depth) IN
       IF threw(t) THEN RangeError
       ELSE resolveUnionTypes(types, i + 1, Append(members, t),
                              decls, processing, depth)

resolveOmitType(typeNode, optional, decls, processing, depth) ==
  IF depth = 0 THEN RangeError
  ELSE IF Len(typeNode.typeArguments) < 2 THEN AnyS(optional)
  ELSE LET baseType == resolveTypeNode(typeNode.typeArguments[1], FALSE,
                                       decls, processing, depth - 1)
           omittedKeys == extractLiteralKeys(typeNode.typeArguments[2])
       IN IF threw(baseType) THEN RangeError
          ELSE IF baseType.kind = "object"
            THEN ObjectS(omitProperties(baseType.properties, omittedKeys),
                         optional)
          ELSE baseType

resolvePickType(typeNode, optional, decls, processing, depth) ==
  IF depth = 0 THEN RangeError
  ELSE IF Len(typeNode.typeArguments) < 2 THEN AnyS(optional)
  ELSE LET baseType == resolveTypeNode(typeNode.typeArguments[1], FALSE,
                                       decls, processing, depth - 1)
           pickedKeys == extractLiteralKeys(typeNode.typeArguments[2])
       IN IF threw(baseType) THEN RangeError
          ELSE IF baseType.kind = "object"
            THEN ObjectS(pickProperties(baseType.properties, pickedKeys, 1, <<>>),
                         optional)
          ELSE baseType

resolvePartialType(typeNode, optional, decls, processing, depth) ==
  IF depth = 0 THEN RangeError
  ELSE IF Len(typeNode.typeArguments) < 1 THEN AnyS(optional)
  ELSE LET baseType == resolveTypeNode(typeNode.typeArguments[1], FALSE,
                                       decls, processing, depth - 1)
       IN IF threw(baseType) THEN RangeError
          ELSE IF baseType.kind = "object"
            THEN ObjectS(partialProperties(baseType.properties), optional)
          ELSE baseType

\* the try block of resolveTypeNode, typeKey already in processingTypes
resolveTypeNodeTry(typeNode, optional, decls, processing, depth) ==
  CASE typeNode.k = "keyword" ->
         IF typeNode.word \in {"string", "number", "boolean", "null"}
           THEN Primitive(typeNode.word, optional)
           ELSE AnyS(optional)
    [] typeNode.k = "array" ->
         LET elementType == resolveTypeNode(typeNode.elementType, FALSE,
                                            decls, processing, depth)
         IN IF threw(elementType) THEN RangeError
            ELSE ArrayS(elementType, optional)
    [] typeNode.k = "union" ->
         LET u == resolveUnionTypes(typeNode.types, 1, <<>>,
                                    decls, processing, depth)
         IN IF threw(u) THEN RangeError ELSE UnionS(u.unionTypes, optional)
    [] typeNode.k = "ref" ->
         IF typeNode.typeName \in specialTypes
           THEN SpecialS(typeNode.typeName, optional)
         ELSE IF typeNode.typeName = "Omit" /\ typeNode.typeArguments # <<>>
           THEN resolveOmitType(typeNode, optional, decls, processing, depth)
         ELSE IF typeNode.typeName = "Pick" /\ typeNode.typeArguments # <<>>
           THEN resolvePickType(typeNode, optional, decls, processing, depth)
         ELSE IF typeNode.typeName = "Partial" /\ typeNode.typeArguments # <<>>
           THEN resolvePartialType(typeNode, optional, decls, processing, depth)
         ELSE IF resolveInterfaceByName(decls, typeNode.typeName) # 0
           THEN LET s == buildValidationSchema(
                           decls[resolveInterfaceByName(decls, typeNode.typeName)],
                           decls, processing, depth)
                IN IF threw(s) THEN RangeError
                   ELSE [s EXCEPT !.optional = optional]
         ELSE IF resolveTypeAliasByName(decls, typeNode.typeName) # 0
           THEN resolveTypeNode(
                  decls[resolveTypeAliasByName(decls, typeNode.typeName)].type,
                  optional, decls, processing, depth)
         ELSE AnyS(optional)
    [] typeNode.k = "literal" ->
         LET s == memberProperties(typeNode.members, 1, <<>>,
                                   decls, processing, depth)
         IN IF threw(s) THEN RangeError ELSE [s EXCEPT !.optional = optional]
    [] OTHER -> AnyS(optional)

\* processing is processingTypes: the texts added and not yet deleted by the
\* finally clause, which are those of the calls on the stack
resolveTypeNode(typeNode, optional, decls, processing, depth) ==
  IF depth = 0 THEN RangeError
  ELSE IF typeNode.k = "none" THEN AnyS(optional)
  ELSE IF getText(typeNode) \in processing THEN AnyS(optional)
  ELSE resolveTypeNodeTry(typeNode, optional, decls,
                          processing \cup {getText(typeNode)}, depth - 1)

\* the last declaration called Props of a kind; 0 when there is none
propsDeclaration(decls, kind) ==
  LET hits == { i \in 1..Len(decls) :
                  decls[i].kind = kind /\ decls[i].name = "Props" }
  IN IF hits = {} THEN 0 ELSE CHOOSE i \in hits : \A j \in hits : j <= i

\* the body of extractPropsInterface's try block: a schema, null (NoSchema)
\* or RangeError
extractPropsInterfaceTry(source) ==
  IF source.param.k # "none"
    THEN resolveTypeNode(source.param, FALSE, source.decls, {}, StackLimit)
  ELSE IF propsDeclaration(source.decls, "interface") # 0
    THEN buildValidationSchema(
           source.decls[propsDeclaration(source.decls, "interface")],
           source.decls, {}, StackLimit)
  ELSE IF propsDeclaration(source.decls, "alias") # 0
    THEN resolveTypeNode(
           source.decls[propsDeclaration(source.decls, "alias")].type,
           FALSE, source.decls, {}, StackLimit)
  ELSE NoSchema

(***************************************************************************)
(* SpecExtract: extractPropsInterface on a source file, then validateValue *)
(* of a document against the schema extracted, as findInObject calls it.   *)
(***************************************************************************)
StringT  == Keyword("string")
NumberT  == Keyword("number")
BooleanT == Keyword("boolean")

BaseD ==
  InterfaceD("Base", <<>>,
    << Member("a", FALSE, FALSE, StringT),
       Member("b", TRUE, FALSE, NumberT),
       Member("c", FALSE, FALSE, BooleanT),
       Member("h", FALSE, TRUE, StringT) >>)

MixinD ==
  InterfaceD("Mixin", <<>>,
    << Member("a", FALSE, FALSE, NumberT),
       Member("m", TRUE, FALSE, StringT) >>)

MidD ==
  InterfaceD("Mid", <<"Base">>,
    << Member("m", FALSE, FALSE, ArrayT(StringT)) >>)

LoopAD == InterfaceD("LoopA", <<"LoopB">>, << Member("x", FALSE, FALSE, StringT) >>)
LoopBD == InterfaceD("LoopB", <<"LoopA">>, << Member("y", FALSE, FALSE, StringT) >>)

\* type Tree = { self: Tree }
TreeD == AliasD("Tree", LiteralT(<< Member("self", FALSE, FALSE, RefT("Tree", <<>>)) >>))

Library == <<BaseD, MixinD, MidD, LoopAD, LoopBD, TreeD>>

KeysAB == UnionT(<<StringLit("a"), StringLit("b")>>)

MemberTypes ==
  { StringT, NumberT, Keyword("any"), Keyword("unknown"),
    ArrayT(StringT), UnionT(<<StringT, Keyword("null")>>),
    RefT("ImageWidget", <<>>), RefT("Base", <<>>), RefT("Mid", <<>>),
    RefT("Missing", <<>>), RefT("Tree", <<>>),
    RefT("Props", <<>>), ArrayT(RefT("Props", <<>>)),
    UnionT(<<RefT("Props", <<>>), Keyword("null")>>),
    RefT("Partial", <<RefT("Props", <<>>)>>),
    RefT("Omit", <<RefT("Base", <<>>), StringLit("b")>>),
    RefT("Omit", <<RefT("Mid", <<>>), UnionT(<<StringLit("a"), StringLit("m")>>)>>),
    RefT("Pick", <<RefT("Base", <<>>), KeysAB>>),
    RefT("Pick", <<RefT("Base", <<>>), UnionT(<<StringLit("c"), StringLit("z")>>)>>),
    RefT("Partial", <<RefT("Base", <<>>)>>),
    RefT("Partial", <<RefT("Mid", <<>>)>>),
    RefT("Omit", <<StringT, StringLit("a")>>),
    RefT("Pick", <<RefT("Missing", <<>>), StringLit("a")>>),
    RefT("Partial", <<ArrayT(StringT)>>),
    RefT("Omit", <<RefT("Base", <<>>)>>),
    LiteralT(<< Member("x", TRUE, FALSE, StringT),
                Member("y", FALSE, TRUE, NumberT) >>),
    OtherT("[string]"), NoType }

Heritages ==
  { <<>>, <<"Base">>, <<"Base", "Mixin">>, <<"Mixin", "Base">>, <<"Mid">>,
    <<"Missing">>, <<"Props">>, <<"LoopA">> }

OwnMembers ==
  {<<>>} \cup { << Member(n, opt, ign, t) >> :
                 n \in {"a", "p"}, opt \in BOOLEAN, ign \in BOOLEAN,
                 t \in MemberTypes }

SourceFile(decls, param) == [decls |-> decls, param |-> param]

SourceFiles ==
  { SourceFile(Library \o << InterfaceD("Props", h, ms) >>, NoType) :
      h \in Heritages, ms \in OwnMembers }
  \cup { SourceFile(Library \o << AliasD("Props", t) >>, NoType) :
           t \in MemberTypes \ {NoType} }
  \cup { SourceFile(Library, t) : t \in MemberTypes }

DocumentKeys == <<"a", "p", "h">>

RECURSIVE DocumentEntries(_)
DocumentEntries(i) ==
  IF i > Len(DocumentKeys) THEN {<<>>}
  ELSE LET rest == DocumentEntries(i + 1)
       IN rest \cup { << <<DocumentKeys[i], StrV("s")>> >> \o r : r \in rest }

Documents == { ObjV(es) : es \in DocumentEntries(1) }

InitExtract ==
  /\ ValIdle /\ RunIdle /\ JfIdle /\ AnIdle /\ MoreIdle
  /\ declarations \in SourceFiles
  /\ extracted = NoSchema /\ document = Undefined /\ report = <<>>
  /\ epc = "idle"

\* extractPropsInterface: the catch clause logs the error and returns null
ExtractPropsInterface ==
  /\ epc = "idle"
  /\ LET s == extractPropsInterfaceTry(declarations)
     IN IF threw(s)
          THEN extracted' = NoSchema /\ epc' = "caught"
          ELSE extracted' = s /\ epc' = "returned"
  /\ UNCHANGED <<declarations, document, report, anVars, moreVars>>
  /\ UNCHANGED valVars /\ UNCHANGED runVars /\ UNCHANGED jfVars

\* findInObject: validateValue(obj, propsSchema, "", !options.includeUnusedVars)
ValidateDocument ==
  /\ epc = "returned" /\ extracted # NoSchema
  /\ \E obj \in Documents, includeUnused \in BOOLEAN :
       /\ document' = [value |-> obj, ignoreUnusedProps |-> ~includeUnused]
       /\ report' = validateValue(obj, extracted, "", ~includeUnused)
  /\ epc' = "validated"
  /\ UNCHANGED <<declarations, extracted, anVars, moreVars>>
  /\ UNCHANGED valVars /\ UNCHANGED runVars /\ UNCHANGED jfVars

NextExtract == ExtractPropsInterface \/ ValidateDocument

SpecExtract == InitExtract /\ [][NextExtract]_vars

(***************************************************************************)
(* C16.  Termination of the extraction on circular declarations.           *)
(***************************************************************************)
PropsInterface ==
  declarations.decls[propsDeclaration(declarations.decls, "interface")]

HasPropsInterface ==
  declarations.param = NoType
  /\ propsDeclaration(declarations.decls, "interface") # 0

SchemaOfProperty(s, name) == propertyOf(s.properties, name)

\* C16: extraction ends with a schema for every source file, circular
\* declarations included, never by exhausting the call stack; a type
\* expression met again while it is being resolved yields 'any': for
\* type Tree = { self: Tree } the schema is an object whose property self
\* is 'any'.
C16_ExtractionTerminates ==
  /\ epc # "caught"
  /\ (epc = "returned" /\ declarations.param = RefT("Tree", <<>>)) =>
       extracted = ObjectS(<< <<"self", AnyS(FALSE)>> >>, FALSE)

(***************************************************************************)
(* C17.  Omit, Pick and Partial.  The type nodes extraction starts from    *)
(* are the parameter type, the type of the alias Props and the types of    *)
(* the members of the interface Props; each comes with the schema          *)
(* extracted for it.                                                       *)
(***************************************************************************)
IsUtility(t) ==
  t.k = "ref" /\ t.typeName \in {"Omit", "Pick", "Partial"}
  /\ Len(t.typeArguments) >= (IF t.typeName = "Partial" THEN 1 ELSE 2)

\* the pairs <<type node, schema extracted for it>>
ExtractedTypes ==
  IF epc \notin {"returned", "validated"} \/ extracted = NoSchema THEN {}
  ELSE IF declarations.param # NoType THEN {<<declarations.param, extracted>>}
  ELSE IF HasPropsInterface
    THEN { <<m.type, SchemaOfProperty(extracted, m.name)>> :
             m \in { x \in SeqRange(PropsInterface.members) : ~x.ignore } }
  ELSE {<<declarations.decls[propsDeclaration(declarations.decls, "alias")].type,
          extracted>>}

\* the schema of the first type argument, resolved inside the utility type
BaseSchema(t) ==
  resolveTypeNode(t.typeArguments[1], FALSE, declarations.decls,
                  {getText(t)}, StackLimit)

\* the string literals of the second type argument
KeySet(t) ==
  LET keyType == t.typeArguments[2] IN
  IF keyType.k = "stringLiteral" THEN {keyType.text}
  ELSE IF keyType.k = "union"
    THEN { keyType.types[i].text : i \in 1..Len(keyType.types) }
  ELSE {}

ExpectedNames(t) ==
  CASE t.typeName = "Omit"    -> PropNames(BaseSchema(t)) \ KeySet(t)
    [] t.typeName = "Pick"    -> PropNames(BaseSchema(t)) \cap KeySet(t)
    [] t.typeName = "Partial" -> PropNames(BaseSchema(t))

ExpectedProperty(t, name) ==
  IF t.typeName = "Partial"
    THEN [SchemaOfProperty(BaseSchema(t), name) EXCEPT !.optional = TRUE]
    ELSE SchemaOfProperty(BaseSchema(t), name)

\* C17: when the base of Omit<Base, K>, Pick<Base, K> or Partial<Base>
\* resolves to an object schema with properties P, the result is an object
\* schema with exactly the properties P \ K, P /\ K and P; each property has
\* the schema it has in the base, marked optional under Partial.
C17_UtilityTypes ==
  \A e \in ExtractedTypes :
    (IsUtility(e[1]) /\ BaseSchema(e[1]).kind = "object") =>
      /\ e[2].kind = "object"
      /\ PropNames(e[2]) = ExpectedNames(e[1])
      /\ Len(e[2].properties) = Cardinality(ExpectedNames(e[1]))
      /\ \A name \in PropNames(e[2]) :
           SchemaOfProperty(e[2], name) = ExpectedProperty(e[1], name)

\* Pick<Base, "c" | "z"> keeps c and nothing for z
C17_Witness ==
  /\ epc = "returned"
  /\ declarations.param =
       RefT("Pick", <<RefT("Base", <<>>), UnionT(<<StringLit("c"), StringLit("z")>>)>>)
  /\ extracted = ObjectS(<< <<"c", Primitive("boolean", FALSE)>> >>, FALSE)

(***************************************************************************)
(* C18.  The optional flag of an extracted property.                       *)
(***************************************************************************)
\* the non-ignored members of the interface Props, each with its schema
ExtractedMembers ==
  IF epc \notin {"returned", "validated"} \/ ~HasPropsInterface THEN {}
  ELSE { <<m, SchemaOfProperty(extracted, m.name)>> :
           m \in { x \in SeqRange(PropsInterface.members) : ~x.ignore } }

\* the non-ignored members of the type literals among them, likewise
ExtractedLiteralMembers ==
  UNION { { <<lm, SchemaOfProperty(e[2], lm.name)>> :
              lm \in { x \in SeqRange(e[1].type.members) : ~x.ignore } } :
          e \in { x \in ExtractedMembers : x[1].type.k = "literal" } }

\* C18: the optional flag of the schema of every non-ignored property of an
\* interface or of a type literal equals the presence of '?' on its
\* declaration, whatever its type expression is.
C18_OptionalFlag ==
  \A e \in ExtractedMembers \cup ExtractedLiteralMembers :
    e[2].optional = e[1].questionToken

(***************************************************************************)
(* C19.  Inheritance.                                                      *)
(***************************************************************************)
InterfaceNamed(name) ==
  declarations.decls[resolveInterfaceByName(declarations.decls, name)]

\* the bases of an interface that are declared in the file, in clause order
DeclaredBases(iface) ==
  SelectSeq(iface.heritage,
            LAMBDA b : resolveInterfaceByName(declarations.decls, b) # 0)

OwnMember(iface, name) ==
  CHOOSE m \in SeqRange(iface.members) : m.name = name /\ ~m.ignore

OwnNames(iface) ==
  { m.name : m \in { x \in SeqRange(iface.members) : ~x.ignore } }

\* the property names of an interface: its own and those of its bases
RECURSIVE AllNames(_)
AllNames(iface) ==
  OwnNames(iface)
  \cup UNION { AllNames(InterfaceNamed(b)) : b \in SeqRange(DeclaredBases(iface)) }

\* the member a property comes from: the interface's own one, else the one
\* of the last base that has the property
RECURSIVE WinningMember(_, _)
WinningMember(iface, name) ==
  IF name \in OwnNames(iface) THEN OwnMember(iface, name)
  ELSE LET bases == DeclaredBases(iface)
           having == { i \in 1..Len(bases) :
                         name \in AllNames(InterfaceNamed(bases[i])) }
           last == CHOOSE i \in having : \A j \in having : j <= i
       IN WinningMember(InterfaceNamed(bases[last]), name)

\* C19: the schema of an interface with extends clauses has the properties of
\* all its bases, bases of bases included, and its own members; a property
\* declared more than once has the schema of the interface's own member,
\* else that of the last-listed base that has it.
C19_Inheritance ==
  (epc = "returned" /\ HasPropsInterface) =>
    /\ extracted.kind = "object"
    /\ PropNames(extracted) = AllNames(PropsInterface)
    /\ Len(extracted.properties) = Cardinality(AllNames(PropsInterface))
    /\ \A name \in PropNames(extracted) :
         LET m == WinningMember(PropsInterface, name)
         IN SchemaOfProperty(extracted, name)
              = resolveTypeNode(m.type, m.questionToken, declarations.decls,
                                {}, StackLimit)

\* Props extends Base, Mixin with an own member p: a is Mixin's, not Base's
C19_Witness ==
  /\ epc = "returned" /\ HasPropsInterface
  /\ PropsInterface.heritage = <<"Base", "Mixin">>
  /\ PropNames(extracted) = {"a", "b", "c", "m", "p"}
  /\ SchemaOfProperty(extracted, "a") = Primitive("number", FALSE)

(***************************************************************************)
(* C20.  Properties annotated with @ignore.                                *)
(***************************************************************************)
RECURSIVE AnnotatedNames(_)
AnnotatedNames(iface) ==
  { m.name : m \in { x \in SeqRange(iface.members) : x.ignore } }
  \cup UNION { AnnotatedNames(InterfaceNamed(b)) :
                 b \in SeqRange(DeclaredBases(iface)) }

\* the names declared with @ignore and nowhere without it
IgnoredNames(iface) == AnnotatedNames(iface) \ AllNames(iface)

IssuesAt(name) ==
  { i \in 1..Len(report) : report[i].path = name }

\* C20: a property declared with @ignore is not in the schema extracted; a
\* document without it gets no error for it, and a document with it gets no
\* warning for it, whether or not unknown properties are reported.
C20_IgnoredInvisible ==
  (epc \in {"returned", "validated"} /\ HasPropsInterface) =>
    \A name \in IgnoredNames(PropsInterface) :
      /\ name \notin PropNames(extracted)
      /\ epc = "validated" => IssuesAt(name) = {}

(***************************************************************************)
(* src/unnamed/part_010: resolveImportPath.  Paths are strings; join,      *)
(* normalize and dirname are those of std/path (posix).                    *)
(***************************************************************************)
\* String.prototype.split on a one-character separator
RECURSIVE splitFrom(_, _, _, _)
splitFrom(str, sep, i, current) ==
  IF i > Len(str) THEN <<current>>
  ELSE IF SubSeq(str, i, i) = sep
    THEN <<current>> \o splitFrom(str, sep, i + 1, "")
  ELSE splitFrom(str, sep, i + 1, current \o SubSeq(str, i, i))

split(str, sep) == splitFrom(str, sep, 1, "")

\* normalizeString: "" and "." dropped, ".." removes the segment before it
RECURSIVE normalizeSegments(_, _, _, _)
normalizeSegments(segs, i, out, isAbsolute) ==
  IF i > Len(segs) THEN out
  ELSE IF segs[i] = "" \/ segs[i] = "."
    THEN normalizeSegments(segs, i + 1, out, isAbsolute)
  ELSE IF segs[i] = ".."
    THEN IF Len(out) > 0 /\ out[Len(out)] # ".."
           THEN normalizeSegments(segs, i + 1, SubSeq(out, 1, Len(out) - 1),
                                  isAbsolute)
         ELSE IF isAbsolute
           THEN normalizeSegments(segs, i + 1, out, isAbsolute)
         ELSE normalizeSegments(segs, i + 1, Append(out, ".."), isAbsolute)
  ELSE normalizeSegments(segs, i + 1, Append(out, segs[i]), isAbsolute)

normalize(p) ==
  IF p = "" THEN "."
  ELSE LET isAbsolute == startsWith(p, "/")
           trailing == endsWith(p, "/")
           body == join(normalizeSegments(split(p, "/"), 1, <<>>, isAbsolute), "/")
           dotted == IF body = "" /\ ~isAbsolute THEN "." ELSE body
           slashed == IF dotted # "" /\ trailing /\ body # ""
                        THEN dotted \o "/" ELSE dotted
       IN IF isAbsolute THEN "/" \o slashed ELSE slashed

\* join(a, b) of std/path
pathJoin(a, b) ==
  IF a = "" /\ b = "" THEN "."
  ELSE IF a = "" THEN normalize(b)
  ELSE IF b = "" THEN normalize(a)
  ELSE normalize(a \o "/" \o b)

\* dirname of std/path, for a path without a trailing separator
dirname(p) ==
  LET segs == split(p, "/")
      head == join(SubSeq(segs, 1, Len(segs) - 1), "/")
  IN IF Len(segs) = 1 THEN "."
     ELSE IF head = "" THEN "/"
     ELSE head

extensions == <<".tsx", ".ts", ".jsx", ".js">>

\* resolveExtension: Deno.statSync succeeds on the paths of files
resolveExtension(p, files) ==
  IF p \in files THEN p
  ELSE LET hits == { i \in 1..Len(extensions) : (p \o extensions[i]) \in files }
       IN IF hits = {} THEN p
          ELSE p \o extensions[CHOOSE i \in hits : \A j \in hits : i <= j]

\* Object.keys(importMap)
aliasesOf(map) == [i \in 1..Len(map) |-> map[i][1]]

targetOf(map, alias) == (CHOOSE e \in SeqRange(map) : e[1] = alias)[2]

\* a slip: the aliases are tried in the order of the import map
sortedAliases_Unsorted(keys) == keys

\* keys.sort((a, b) => b.length - a.length): stable, longest first
RECURSIVE sortedAliases(_)
sortedAliases(keys) ==
  IF keys = <<>> THEN <<>>
  ELSE LET rest == sortedAliases(Tail(keys))
           before == SelectSeq(rest, LAMBDA k : Len(k) > Len(Head(keys)))
           after == SelectSeq(rest, LAMBDA k : Len(k) <= Len(Head(keys)))
       IN before \o <<Head(keys)>> \o after

\* the loop over sortedAliases: the path resolved through the first alias
\* that is a prefix, or "" to fall back
RECURSIVE resolveAlias(_, _, _, _, _, _)
resolveAlias(aliases, i, specifier, root, map, files) ==
  IF i > Len(aliases) THEN ""
  ELSE IF startsWith(specifier, aliases[i])
    THEN LET target == targetOf(map, aliases[i])
             relativePart == SubSeq(specifier, Len(aliases[i]) + 1, Len(specifier))
         IN IF startsWith(target, "./") \/ startsWith(target, "../")
              THEN resolveExtension(pathJoin(pathJoin(root, target), relativePart),
                                    files)
              ELSE ""
  ELSE resolveAlias(aliases, i + 1, specifier, root, map, files)

resolveImportPath(specifier, currentFilePath, root, map, files) ==
  IF startsWith(specifier, "./") \/ startsWith(specifier, "../")
    THEN resolveExtension(pathJoin(dirname(currentFilePath), specifier), files)
  ELSE LET viaAlias ==
             IF root # ""
               THEN resolveAlias(sortedAliases(aliasesOf(map)), 1, specifier, root,
                                 map, files)
               ELSE ""
       IN IF viaAlias # "" THEN viaAlias
          ELSE resolveExtension(pathJoin(dirname(currentFilePath), specifier), files)

(***************************************************************************)
(* SpecResolveImport: one call of resolveImportPath from a section file,   *)
(* on an arbitrary import map (deno.json) and set of files on disk.        *)
(***************************************************************************)
CurrentFilePath == "/r/sections/S.tsx"

MapEntryChoices ==
  << {<<>>, << <<"$store/", "./">> >>, << <<"$store/", "https://x/">> >>},
     {<<>>, << <<"$store/islands/", "./isl/">> >>,
            << <<"$store/islands/", "npm:i/">> >>},
     {<<>>, << <<"apps/", "https://a/">> >>},
     {<<>>, << <<"$", "../up/">> >>} >>

RECURSIVE MapsFrom(_)
MapsFrom(i) ==
  IF i > Len(MapEntryChoices) THEN {<<>>}
  ELSE { e \o rest : e \in MapEntryChoices[i], rest \in MapsFrom(i + 1) }
       \cup { rest \o e : e \in MapEntryChoices[i], rest \in MapsFrom(i + 1) }

ImportMaps == MapsFrom(1)

ImportPaths ==
  { "$store/islands/L.tsx", "$store/islands/L", "$store/c/F.tsx",
    "apps/c/mod.ts", "./H.tsx", "../H", "x/y.ts", "$store/" }

FileSets ==
  { {}, {"/r/isl/L.tsx", "/r/islands/L.ts", "/r/islands/L.js", "/r/H.ts"},
    {"/r/isl/L.ts", "/r/isl/L.js", "/up/store/islands/L.tsx"} }

InitResolveImport ==
  /\ ValIdle /\ RunIdle /\ JfIdle /\ AnIdle /\ ExIdle /\ RxIdle /\ LateIdle
  /\ importPath \in ImportPaths
  /\ importMap \in ImportMaps
  /\ projectRoot \in {"", "/r"}
  /\ existingFiles \in FileSets
  /\ resolvedPath = "" /\ ipc = "idle"

CallResolveImportPath ==
  /\ ipc = "idle" /\ ipc' = "returned"
  /\ resolvedPath' = resolveImportPath(importPath, CurrentFilePath, projectRoot,
                                       importMap, existingFiles)
  /\ UNCHANGED <<importPath, importMap, projectRoot, existingFiles>>
  /\ UNCHANGED valVars /\ UNCHANGED runVars /\ UNCHANGED jfVars
  /\ UNCHANGED anVars /\ UNCHANGED exVars /\ UNCHANGED rxVars
  /\ UNCHANGED lateVars

NextResolveImport == CallResolveImportPath

SpecResolveImport == InitResolveImport /\ [][NextResolveImport]_vars

(***************************************************************************)
(* C21.  The alias applied to an import path.                              *)
(***************************************************************************)
IsRelativeImport(p) == startsWith(p, "./") \/ startsWith(p, "../")

MatchingAliases ==
  { a \in SeqRange(aliasesOf(importMap)) : startsWith(importPath, a) }

LongestAlias ==
  CHOOSE a \in MatchingAliases : \A b \in MatchingAliases : Len(b) <= Len(a)

IsLocalTarget(t) == startsWith(t, "./") \/ startsWith(t, "../")

\* a path, or the path with one of the extensions when only that exists
WithExtensionOf(p) == resolveExtension(p, existingFiles)

RelativeToCurrentFile == WithExtensionOf(pathJoin("/r/sections", importPath))

\* C21: for a non-relative import path resolved with a project root, the
\* alias applied is the longest key of the import map that is a prefix of
\* the path; with a local target the result is projectRoot/target joined
\* with the rest of the path (with the extension found on disk); when the
\* longest matching alias has a non-local target, or none matches, the path
\* is resolved relative to the directory of the current file.
C21_LongestAlias ==
  (ipc = "returned" /\ ~IsRelativeImport(importPath) /\ projectRoot # "") =>
    IF MatchingAliases # {} /\ IsLocalTarget(targetOf(importMap, LongestAlias))
      THEN resolvedPath =
             WithExtensionOf(
               pathJoin(pathJoin(projectRoot, targetOf(importMap, LongestAlias)),
                        SubSeq(importPath, Len(LongestAlias) + 1, Len(importPath))))
      ELSE resolvedPath = RelativeToCurrentFile

\* "$store/" is listed before "$store/islands/" and both match
C21_Witness ==
  /\ ipc = "returned" /\ projectRoot = "/r"
  /\ importPath = "$store/islands/L"
  /\ Len(importMap) >= 2
  /\ importMap[1] = <<"$store/", "./">>
  /\ <<"$store/islands/", "./isl/">> \in SeqRange(importMap)
  /\ resolvedPath = "/r/isl/L.tsx"

(***************************************************************************)
(* SpecReExport: extractPropsInterface on a file of a directory whose      *)
(* files re-export one another's default export, declare Props, declare    *)
(* nothing, or are missing.  A nested call is a further path on callChain. *)
(***************************************************************************)
SectionPaths == <<"/r/sections/A.tsx", "/r/sections/B.tsx", "/r/sections/C.ts">>

Absent == [kind |-> "absent"]
\* export { default } from "<specifier>"
ReExport(specifier) == [kind |-> "reexport", from |-> specifier]
SourceText(source) == [kind |-> "source", source |-> source]

\* interface Props { <name>: string }
PropsSource(name) ==
  SourceFile(<< InterfaceD("Props", <<>>,
                  << Member(name, FALSE, FALSE, Keyword("string")) >>) >>,
             NoType)

\* export default function (props: { <name>?: number })
ParamSource(name) ==
  SourceFile(<<>>, LiteralT(<< Member(name, TRUE, FALSE, Keyword("number")) >>))

\* a component without a typed parameter and without Props
NoPropsSource == SourceFile(<< AliasD("Other", Keyword("string")) >>, NoType)

PropertyNameOf(i) == CASE i = 1 -> "a" [] i = 2 -> "b" [] OTHER -> "c"

FileChoices(i) ==
  { Absent, ReExport("./A"), ReExport("./B.tsx"), ReExport("./C"),
    ReExport("./Missing"), SourceText(NoPropsSource),
    SourceText(IF i = 2 THEN ParamSource(PropertyNameOf(i))
               ELSE PropsSource(PropertyNameOf(i))) }

Disks ==
  { << <<SectionPaths[1], a>>, <<SectionPaths[2], b>>, <<SectionPaths[3], c>> >> :
      a \in FileChoices(1), b \in FileChoices(2), c \in FileChoices(3) }

FilesOn(d) == { d[i][1] : i \in { j \in 1..Len(d) : d[j][2] # Absent } }

\* Deno.readTextFile: the content of a file, Absent when it throws
readTextFile(d, p) ==
  IF p \in FilesOn(d) THEN (CHOOSE e \in SeqRange(d) : e[1] = p)[2]
  ELSE Absent

\* a slip: the file is read before the try block is entered
tryEncloses_ReadOutside(step) == step \in {"reexport", "extract"}

\* the steps the try block of extractPropsInterface encloses
tryEncloses(step) == step \in {"read", "reexport", "extract"}

extracting == callChain[Len(callChain)]

InitReExport ==
  /\ ValIdle /\ RunIdle /\ JfIdle /\ AnIdle /\ ExIdle /\ RiIdle /\ LateIdle
  /\ disk \in Disks
  /\ callChain = <<>> /\ returnedSchema = NoSchema /\ xpc = "idle"

\* extractPropsInterface(filePath, projectRoot) is called on the first file
ExtractCall ==
  /\ xpc = "idle" /\ xpc' = "reading"
  /\ callChain' = <<SectionPaths[1]>>
  /\ UNCHANGED <<disk, returnedSchema>>
  /\ UNCHANGED valVars /\ UNCHANGED runVars /\ UNCHANGED jfVars
  /\ UNCHANGED anVars /\ UNCHANGED exVars /\ UNCHANGED riVars
  /\ UNCHANGED lateVars

\* Deno.readTextFile throws: the catch clause returns null, and every caller
\* returns what it awaited
ReadFails ==
  /\ xpc = "reading"
  /\ readTextFile(disk, extracting) = Absent
  /\ IF tryEncloses("read")
       THEN returnedSchema' = NoSchema /\ xpc' = "returned"
       ELSE returnedSchema' = returnedSchema /\ xpc' = "thrown"
  /\ UNCHANGED <<disk, callChain>>
  /\ UNCHANGED valVars /\ UNCHANGED runVars /\ UNCHANGED jfVars
  /\ UNCHANGED anVars /\ UNCHANGED exVars /\ UNCHANGED riVars
  /\ UNCHANGED lateVars

\* findReExportPath finds a path: return await extractPropsInterface(path)
FollowReExport ==
  /\ xpc = "reading"
  /\ readTextFile(disk, extracting).kind = "reexport"
  /\ Len(callChain) < MaxCalls
  /\ callChain' =
       Append(callChain,
              resolveImportPath(readTextFile(disk, extracting).from, extracting,
                                "/r", <<>>, FilesOn(disk)))
  /\ UNCHANGED <<disk, returnedSchema, xpc>>
  /\ UNCHANGED valVars /\ UNCHANGED runVars /\ UNCHANGED jfVars
  /\ UNCHANGED anVars /\ UNCHANGED exVars /\ UNCHANGED riVars
  /\ UNCHANGED lateVars

\* no re-export: the schema of the default export's parameter or of Props
ExtractFromSource ==
  /\ xpc = "reading"
  /\ readTextFile(disk, extracting).kind = "source"
  /\ LET s == extractPropsInterfaceTry(readTextFile(disk, extracting).source)
     IN IF ~threw(s) THEN returnedSchema' = s /\ xpc' = "returned"
        ELSE IF tryEncloses("extract")
          THEN returnedSchema' = NoSchema /\ xpc' = "returned"
        ELSE returnedSchema' = returnedSchema /\ xpc' = "thrown"
  /\ UNCHANGED <<disk, callChain>>
  /\ UNCHANGED valVars /\ UNCHANGED runVars /\ UNCHANGED jfVars
  /\ UNCHANGED anVars /\ UNCHANGED exVars /\ UNCHANGED riVars
  /\ UNCHANGED lateVars

NextReExport == ExtractCall \/ ReadFails \/ FollowReExport \/ ExtractFromSource

SpecReExport == InitReExport /\ [][NextReExport]_vars

(***************************************************************************)
(* C22.  extractPropsInterface returns null or a schema, never throws.     *)
(***************************************************************************)
\* the file a re-export specifier names: its index in SectionPaths, 0 when
\* there is no such file
NamedFile(specifier) ==
  CASE specifier = "./A"     -> 1
    [] specifier = "./B.tsx" -> 2
    [] specifier = "./C"     -> 3
    [] OTHER                 -> 0

\* the file an acyclic chain of re-exports ends in: 0 when a link is missing
RECURSIVE ChainEnd(_, _)
ChainEnd(i, hops) ==
  IF i = 0 \/ disk[i][2] = Absent \/ hops = 0 THEN 0
  ELSE IF disk[i][2].kind = "reexport"
    THEN ChainEnd(NamedFile(disk[i][2].from), hops - 1)
  ELSE i

ExpectedSchemaOf(i) ==
  IF i = 0 \/ disk[i][2].source = NoPropsSource THEN NoSchema
  ELSE IF i = 2
    THEN ObjectS(<< <<PropertyNameOf(i), Primitive("number", TRUE)>> >>, FALSE)
  ELSE ObjectS(<< <<PropertyNameOf(i), Primitive("string", FALSE)>> >>, FALSE)

\* C22: extractPropsInterface never throws; it returns null when the file
\* cannot be read, when a link of the re-export chain names a file that does
\* not exist, and when the file it ends in has neither a typed parameter of
\* the default export nor a declaration Props; otherwise it returns the
\* schema of the file the chain ends in.
C22_NullNeverThrows ==
  /\ xpc # "thrown"
  /\ xpc = "returned" =>
       returnedSchema = ExpectedSchemaOf(ChainEnd(1, Len(SectionPaths)))

\* A re-exports B, B re-exports C, C declares Props
C22_Witness ==
  /\ xpc = "returned"
  /\ Len(callChain) = 3
  /\ callChain[3] = "/r/sections/C.ts"
  /\ returnedSchema = ObjectS(<< <<"c", Primitive("string", FALSE)>> >>, FALSE)

(***************************************************************************)
(* src/src/type-parser.ts: the cleanups main runs after reportResults,     *)
(* removeUnusedPropertiesFromJsons (-rm-vars) and removeUnusedSectionFiles *)
(* (-rm-sections).                                                         *)
(***************************************************************************)
isDigit(ch) == ch \in {"0", "1", "2", "3", "4", "5", "6", "7", "8", "9"}

digitValue(ch) ==
  CASE ch = "0" -> 0 [] ch = "1" -> 1 [] ch = "2" -> 2 [] ch = "3" -> 3
    [] ch = "4" -> 4 [] ch = "5" -> 5 [] ch = "6" -> 6 [] ch = "7" -> 7
    [] ch = "8" -> 8 [] OTHER -> 9

\* the index after the run of digits that starts at i
RECURSIVE digitsEnd(_, _)
digitsEnd(str, i) ==
  IF i <= Len(str) /\ isDigit(SubSeq(str, i, i))
    THEN digitsEnd(str, i + 1)
    ELSE i

\* path.replace(/\[(\d+)\]/g, ".$1")
RECURSIVE bracketsToDots(_, _)
bracketsToDots(str, i) ==
  IF i > Len(str) THEN ""
  ELSE LET e == digitsEnd(str, i + 1) IN
    IF SubSeq(str, i, i) = "[" /\ e > i + 1 /\ e <= Len(str)
       /\ SubSeq(str, e, e) = "]"
      THEN "." \o SubSeq(str, i + 1, e - 1) \o bracketsToDots(str, e + 1)
      ELSE SubSeq(str, i, i) \o bracketsToDots(str, i + 1)

\* const parts = path.replace(/\[(\d+)\]/g, ".$1").split(".")
pathParts(p) == split(bracketsToDots(p, 1), ".")

RECURSIVE parseDigits(_, _, _)
parseDigits(str, i, acc) ==
  IF i <= Len(str) /\ isDigit(SubSeq(str, i, i))
    THEN parseDigits(str, i + 1, acc * 10 + digitValue(SubSeq(str, i, i)))
    ELSE acc

\* parseInt(part, 10) of a key or an index text; NaN is -1
parseInt(str) ==
  IF Len(str) > 0 /\ isDigit(SubSeq(str, 1, 1))
    THEN parseDigits(str, 1, 0)
    ELSE 0 - 1

\* what a removal returns, and the object it was applied to afterwards
Removal(ok, v) == [ok |-> ok, v |-> v]

setItem(arr, i, v) == ArrV([arr.items EXCEPT ![i] = v])

setEntry(obj, key, v) ==
  ObjV([j \in 1..Len(obj.entries) |->
          IF obj.entries[j][1] = key THEN <<key, v>> ELSE obj.entries[j]])

\* delete obj[lastPart]
deleteKey(obj, key) == ObjV(SelectSeq(obj.entries, LAMBDA e : e[1] # key))

\* current.splice(index, 1)
splice(arr, index) ==
  ArrV(SubSeq(arr.items, 1, index)
       \o SubSeq(arr.items, index + 2, Len(arr.items)))

\* removePropertyByPath from parts[i] on: the navigation loop, then the
\* removal of the final property
RECURSIVE removeByParts(_, _, _)
removeByParts(current, parts, i) ==
  IF typeof(current) # "object" \/ current.t = "null"
    THEN Removal(FALSE, current)
  ELSE IF i = Len(parts)
    THEN IF isArray(current)
           THEN LET index == parseInt(parts[i]) IN
                  IF index # 0 - 1 /\ index < Len(current.items)
                    THEN Removal(TRUE, splice(current, index))
                    ELSE Removal(FALSE, current)
           ELSE IF hasKey(current, parts[i])
                  THEN Removal(TRUE, deleteKey(current, parts[i]))
                  ELSE Removal(FALSE, current)
  ELSE IF isArray(current)
    THEN LET index == parseInt(parts[i]) IN
           IF index = 0 - 1 \/ index >= Len(current.items)
             THEN Removal(FALSE, current)
             ELSE LET r == removeByParts(current.items[index + 1], parts, i + 1)
                  IN Removal(r.ok, IF r.ok THEN setItem(current, index + 1, r.v)
                                           ELSE current)
  ELSE LET r == removeByParts(getProp(current, parts[i]), parts, i + 1)
       IN Removal(r.ok, IF r.ok THEN setEntry(current, parts[i], r.v)
                                ELSE current)

removePropertyByPath(obj, p) == removeByParts(obj, pathParts(p), 1)

RECURSIVE removePropertyFromJson(_, _, _)
RECURSIVE removeFromItems(_, _, _, _)
RECURSIVE removeFromEntries(_, _, _, _)

\* for (const item of obj): the first item a removal succeeds in
removeFromItems(obj, i, target, propertyPath) ==
  IF i > Len(obj.items) THEN Removal(FALSE, obj)
  ELSE LET item == obj.items[i]
           r == IF typeof(item) = "object" /\ item.t # "null"
                  THEN removePropertyFromJson(item, target, propertyPath)
                  ELSE Removal(FALSE, item)
       IN IF r.ok THEN Removal(TRUE, setItem(obj, i, r.v))
          ELSE removeFromItems(obj, i + 1, target, propertyPath)

\* for (const value of Object.values(obj))
removeFromEntries(obj, i, target, propertyPath) ==
  IF i > Len(obj.entries) THEN Removal(FALSE, obj)
  ELSE LET child == obj.entries[i][2]
           r == IF typeof(child) = "object" /\ child.t # "null"
                  THEN removePropertyFromJson(child, target, propertyPath)
                  ELSE Removal(FALSE, child)
       IN IF r.ok THEN Removal(TRUE, setEntry(obj, obj.entries[i][1], r.v))
          ELSE removeFromEntries(obj, i + 1, target, propertyPath)

\* the first node whose __resolveType is the target decides
removePropertyFromJson(obj, target, propertyPath) ==
  IF typeof(obj) # "object" \/ obj.t = "null"
    THEN Removal(FALSE, obj)
  ELSE IF getProp(obj, "__resolveType") = StrV(target)
    THEN removePropertyByPath(obj, propertyPath)
  ELSE IF isArray(obj)
    THEN removeFromItems(obj, 1, target, propertyPath)
  ELSE removeFromEntries(obj, 1, target, propertyPath)

\* the words removeUnusedPropertiesFromJsons looks for in a warning's
\* message: those validateObject gives its unknown-property warning
unusedPropertyText == "propriedade nao definida na tipagem"

\* warning.path.replace(/^root\./, "")
stripRoot(p) ==
  IF startsWith(p, "root.") THEN SubSeq(p, 6, Len(p)) ELSE p

\* modifiedFiles: a Map from the path of a JSON file to its parsed data
mapHas(m, key) == \E j \in 1..Len(m) : m[j][1] = key
mapGet(m, key) == (CHOOSE e \in SeqRange(m) : e[1] = key)[2]
mapSet(m, key, v) ==
  IF mapHas(m, key)
    THEN [j \in 1..Len(m) |-> IF m[j][1] = key THEN <<key, v>> ELSE m[j]]
    ELSE Append(m, <<key, v>>)

\* JSON.parse(await Deno.readTextFile(jsonPath))
readJson(files, jsonPath) ==
  (CHOOSE f \in SeqRange(files) : f.name = jsonPath).json

\* for (const warning of unusedWarnings)
RECURSIVE removeEach(_, _, _, _, _)
removeEach(jsonData, target, unusedWarnings, i, removed) ==
  IF i > Len(unusedWarnings)
    THEN [jsonData |-> jsonData, removed |-> removed]
    ELSE LET r == removePropertyFromJson(jsonData, target,
                                         stripRoot(unusedWarnings[i].path))
         IN removeEach(r.v, target, unusedWarnings, i + 1,
                       IF r.ok THEN removed + 1 ELSE removed)

\* for (const occ of result.occurrences)
RECURSIVE cleanOccurrences(_, _, _, _, _)
cleanOccurrences(st, files, target, occs, i) ==
  IF i > Len(occs) THEN st
  ELSE LET unusedWarnings ==
             SelectSeq(occs[i].warnings,
                       LAMBDA w : includes(w.message, unusedPropertyText))
           jsonPath == occs[i].jsonFile
       IN IF Len(unusedWarnings) = 0
            THEN cleanOccurrences(st, files, target, occs, i + 1)
            ELSE LET loaded == IF mapHas(st.modifiedFiles, jsonPath)
                                 THEN st.modifiedFiles
                                 ELSE mapSet(st.modifiedFiles, jsonPath,
                                             readJson(files, jsonPath))
                     r == removeEach(mapGet(loaded, jsonPath), target,
                                     unusedWarnings, 1, st.totalRemoved)
                 IN cleanOccurrences(
                      [modifiedFiles |-> mapSet(loaded, jsonPath, r.jsonData),
                       totalRemoved |-> r.removed],
                      files, target, occs, i + 1)

\* for (const result of validationResults)
RECURSIVE cleanResults(_, _, _, _)
cleanResults(st, files, validationResults, i) ==
  IF i > Len(validationResults) THEN st
  ELSE cleanResults(cleanOccurrences(st, files, validationResults[i].resolveType,
                                     validationResults[i].occurrences, 1),
                    files, validationResults, i + 1)

\* the Map and the count when the loop over the results has ended
removeUnusedPropertiesFromJsons(validationResults, files) ==
  cleanResults([modifiedFiles |-> <<>>, totalRemoved |-> 0], files,
               validationResults, 1)

\* await Deno.writeTextFile(jsonPath, JSON.stringify(jsonData, null, 2))
writeAll(files, modifiedFiles) ==
  [j \in 1..Len(files) |->
     IF mapHas(modifiedFiles, files[j].name)
       THEN [files[j] EXCEPT !.json = mapGet(modifiedFiles, files[j].name)]
       ELSE files[j]]

\* sectionFilePath: the absolute path of a file findAllSections returned
CleanupRoot == "/r"
sectionFilePath(file) == CleanupRoot \o "/" \o file

\* getUsedSections: the paths of the results with an occurrence
getUsedSections(rs) ==
  {sectionFilePath(rs[i].sectionFile) :
     i \in {j \in 1..Len(rs) : Len(rs[j].occurrences) > 0}}

\* getAllSectionFiles: the files under sections/, loaders/ and actions/
getAllSectionFiles(files) ==
  [i \in 1..Len(files) |-> sectionFilePath(files[i].file)]

\* const toRemove = allSectionFiles.filter(...)
toRemove(allSectionFiles, usedSections) ==
  SelectSeq(allSectionFiles, LAMBDA file :
    /\ file \notin usedSections
    /\ includes(file, "/sections/")
    /\ ~(\/ includes(file, "/sections/Theme/")
         \/ endsWith(file, "/sections/Component.tsx")
         \/ endsWith(file, "/sections/Session.tsx"))
    /\ ~(includes(file, "/loaders/") \/ includes(file, "/actions/")))

isSpace(ch) == ch \in {" ", "\n", "\t", "\r"}

RECURSIVE trimStart(_)
trimStart(str) ==
  IF Len(str) > 0 /\ isSpace(SubSeq(str, 1, 1))
    THEN trimStart(SubSeq(str, 2, Len(str)))
    ELSE str

RECURSIVE trimEnd(_)
trimEnd(str) ==
  IF Len(str) > 0 /\ isSpace(SubSeq(str, Len(str), Len(str)))
    THEN trimEnd(SubSeq(str, 1, Len(str) - 1))
    ELSE str

\* String.prototype.trim
trim(str) == trimEnd(trimStart(str))

lowerOf(ch) ==
  CASE ch = "Y" -> "y" [] ch = "E" -> "e" [] ch = "S" -> "s"
    [] ch = "N" -> "n" [] ch = "O" -> "o" [] OTHER -> ch

\* String.prototype.toLowerCase, over the letters of the answers read
RECURSIVE toLowerCase(_)
toLowerCase(str) ==
  IF Len(str) = 0 THEN ""
  ELSE lowerOf(SubSeq(str, 1, 1)) \o toLowerCase(SubSeq(str, 2, Len(str)))

\* confirmation.toLowerCase() === "yes", confirmation the trimmed answer
confirmed(answer) == toLowerCase(trim(answer)) = "yes"

(***************************************************************************)
(* SpecCleanup: the runs of main with -rm-vars and -rm-sections.  The      *)
(* validation is the one of SpecRun; the cleanups follow reportResults.    *)
(***************************************************************************)
ContainerProps ==
  ObjectS(<<<<"name", Primitive("string", FALSE)>>, <<"child", AnyS(TRUE)>>>>,
          FALSE)

ListType == "site/loaders/list.ts"

HeroNode(name, more) ==
  ObjV(<<<<"__resolveType", StrV(HeroType)>>, <<"name", StrV(name)>>>> \o more)

CleanupDocContents ==
  { UnparsableDoc,
    ParsedDoc(HeroNode("a", <<<<"teste", StrV("unused value")>>>>)),
    ParsedDoc(ObjV(<<<<"sections",
                       ArrV(<<HeroNode("a", <<<<"teste", NumV(1)>>>>),
                              HeroNode("b", <<<<"teste", NumV(2)>>>>)>>)>>>>)),
    ParsedDoc(HeroNode("a",
                <<<<"child", HeroNode("b", <<<<"teste", NumV(1)>>>>)>>>>)),
    ParsedDoc(ObjV(<<<<"sections",
                       ArrV(<<ObjV(<<<<"__resolveType", StrV(TextType)>>,
                                     <<"name", StrV("a")>>>>)>>)>>,
                     <<"list", ObjV(<<<<"__resolveType", StrV(ListType)>>,
                                      <<"name", StrV("a")>>>>)>>>>)) }

CleanupSectionFiles ==
  { SectionFile("sections/Hero.tsx", FALSE, <<ContainerProps>>),
    SectionFile("sections/Text.tsx", FALSE, <<NameProps>>),
    SectionFile("sections/Unused.tsx", FALSE, <<NameProps>>),
    SectionFile("sections/Component.tsx", FALSE, <<NameProps>>),
    SectionFile("sections/Theme/Theme.tsx", FALSE, <<NameProps>>),
    SectionFile("loaders/list.ts", FALSE, <<NameProps>>),
    SectionFile("loaders/other.ts", FALSE, <<NameProps>>) }

CleanupDocSeqs ==
  UNION { { [i \in 1..k |-> [name |-> DocName(i), parses |-> c[i].parses,
                             json |-> c[i].json]] :
            c \in [1..k -> CleanupDocContents] }
          : k \in 1..MaxDocs }

CleanupFileSeqs ==
  { fs \in UNION { [1..k -> CleanupSectionFiles] : k \in 1..MaxSections } :
      \A i, j \in 1..Len(fs) : i # j => fs[i].file # fs[j].file }

\* what the user types at the prompt; "" is the end of the input
Answers == {"yes\n", "YES\n", "no\n", ""}

InitCleanup ==
  /\ ValIdle /\ JfIdle /\ AnIdle /\ ExIdle /\ RiIdle /\ RxIdle /\ SpIdle
  /\ CaIdle /\ PtIdle
  /\ docs \in CleanupDocSeqs
  /\ sectionFiles \in CleanupFileSeqs
  /\ removeUnusedVars \in BOOLEAN
  /\ removeUnusedSections \in BOOLEAN
  /\ includeUnusedVars = removeUnusedVars
  /\ targetMode \in BOOLEAN
  /\ targetExists = TRUE
  /\ importedFiles \in {{}, {sectionFilePath("sections/Unused.tsx")}}
  /\ antiPatterns = 0
  /\ sectionIdx = 0 /\ docIdx = 0
  /\ occurrences = <<>> /\ loopAborted = FALSE
  /\ results = <<>> /\ exitCode = 0
  /\ confirmation = "" /\ jsonFiles = docs
  /\ totalRemoved = 0 /\ deletedFiles = {}
  /\ rpc = "main"

\* const hasErrors = reportResults(results, antiPatterns); the cleanups
\* come before Deno.exit
ReportBeforeCleanup ==
  /\ rpc = "report"
  /\ rpc' = "rmvars"
  /\ UNCHANGED <<docs, sectionFiles, includeUnusedVars, targetMode,
                 targetExists, antiPatterns, sectionIdx, docIdx, occurrences,
                 loopAborted, results, exitCode>>
  /\ UNCHANGED valVars /\ UNCHANGED jfVars /\ UNCHANGED auxVars

\* if (options.removeUnusedVars) await removeUnusedPropertiesFromJsons(results)
CleanupVars ==
  /\ rpc = "rmvars"
  /\ IF removeUnusedVars
       THEN LET st == removeUnusedPropertiesFromJsons(results, jsonFiles) IN
              /\ jsonFiles' = writeAll(jsonFiles, st.modifiedFiles)
              /\ totalRemoved' = st.totalRemoved
       ELSE UNCHANGED <<jsonFiles, totalRemoved>>
  /\ rpc' = IF targetMode THEN "exit" ELSE "rmsections"
  /\ UNCHANGED <<removeUnusedVars, removeUnusedSections, importedFiles,
                 confirmation, deletedFiles>>
  /\ UNCHANGED <<docs, sectionFiles, includeUnusedVars, targetMode,
                 targetExists, antiPatterns, sectionIdx, docIdx, occurrences,
                 loopAborted, results, exitCode>>
  /\ UNCHANGED valVars /\ UNCHANGED jfVars /\ UNCHANGED anVars
  /\ UNCHANGED exVars /\ UNCHANGED riVars /\ UNCHANGED rxVars
  /\ UNCHANGED spVars /\ UNCHANGED caVars /\ UNCHANGED ptVars

\* if (options.removeUnusedSections)
\*   await removeUnusedSectionFiles(allSectionFiles, usedSections)
CleanupSections ==
  /\ rpc = "rmsections"
  /\ LET files == toRemove(getAllSectionFiles(sectionFiles),
                           getUsedSections(results))
     IN IF removeUnusedSections /\ Len(files) > 0
          THEN \E answer \in Answers :
                 /\ confirmation' = answer
                 /\ deletedFiles' = IF confirmed(answer) THEN SeqRange(files)
                                                         ELSE {}
          ELSE UNCHANGED <<confirmation, deletedFiles>>
  /\ rpc' = "exit"
  /\ UNCHANGED <<removeUnusedVars, removeUnusedSections, importedFiles,
                 jsonFiles, totalRemoved>>
  /\ UNCHANGED <<docs, sectionFiles, includeUnusedVars, targetMode,
                 targetExists, antiPatterns, sectionIdx, docIdx, occurrences,
                 loopAborted, results, exitCode>>
  /\ UNCHANGED valVars /\ UNCHANGED jfVars /\ UNCHANGED anVars
  /\ UNCHANGED exVars /\ UNCHANGED riVars /\ UNCHANGED rxVars
  /\ UNCHANGED spVars /\ UNCHANGED caVars /\ UNCHANGED ptVars

\* Deno.exit(hasErrors ? 1 : 0)
ExitAfterCleanup ==
  /\ rpc = "exit"
  /\ exitCode' = IF reportResults(results, antiPatterns) THEN 1 ELSE 0
  /\ rpc' = "exited"
  /\ UNCHANGED <<docs, sectionFiles, includeUnusedVars, targetMode,
                 targetExists, antiPatterns, sectionIdx, docIdx, occurrences,
                 loopAborted, results>>
  /\ UNCHANGED valVars /\ UNCHANGED jfVars /\ UNCHANGED auxVars

NextCleanup ==
  \/ MainStart
  \/ ValidateSectionBegin
  \/ ScanDocument
  \/ ValidateSectionEnd
  \/ DetectAntiPatterns
  \/ ReportBeforeCleanup
  \/ CleanupVars
  \/ CleanupSections
  \/ ExitAfterCleanup

SpecCleanup == InitCleanup /\ [][NextCleanup]_vars

(***************************************************************************)
(* C23. -rm-vars removes every property reported as not defined.           *)
(***************************************************************************)
\* the value a path leads to in a document, undefined when it leads nowhere
RECURSIVE Lookup(_, _, _)
Lookup(v, parts, i) ==
  IF i > Len(parts) THEN v
  ELSE IF v.t = "array"
    THEN IF parseInt(parts[i]) # 0 - 1 /\ parseInt(parts[i]) < Len(v.items)
           THEN Lookup(v.items[parseInt(parts[i]) + 1], parts, i + 1)
           ELSE Undefined
  ELSE IF v.t = "object" THEN Lookup(getProp(v, parts[i]), parts, i + 1)
  ELSE Undefined

\* the steps from the root of a document to an occurrence
OccurrenceParts(occ) ==
  IF occ.jsonPath = "root" THEN <<>> ELSE pathParts(occ.jsonPath)

IsUnknownPropertyWarning(w) ==
  w.severity = "warning" /\ includes(w.message, unusedPropertyText)

UnknownPropertyWarnings(occ) ==
  SelectSeq(occ.warnings, IsUnknownPropertyWarning)

RewrittenDocument(name) ==
  (CHOOSE f \in SeqRange(jsonFiles) : f.name = name).json

RECURSIVE SumOver(_, _)
SumOver(counts, i) ==
  IF i > Len(counts) THEN 0 ELSE counts[i] + SumOver(counts, i + 1)

ReportedUnknownProperties ==
  SumOver([i \in 1..Len(results) |->
             SumOver([k \in 1..Len(results[i].occurrences) |->
                        Len(UnknownPropertyWarnings(results[i].occurrences[k]))],
                     1)], 1)

VarsCleanupDone ==
  removeUnusedVars /\ rpc \in {"rmsections", "exit", "exited"}

\* C23: once removeUnusedPropertiesFromJsons has run, every property an
\* occurrence was warned about as not defined in the type is absent from
\* that occurrence in the rewritten document, wherever the occurrence sits
\* among the occurrences of its component, and the number of properties
\* removed is the number of such warnings.
C23_CleanupRemovesReported ==
  VarsCleanupDone =>
    /\ \A i \in 1..Len(results) :
         \A k \in 1..Len(results[i].occurrences) :
           LET occ == results[i].occurrences[k]
               ws == UnknownPropertyWarnings(occ)
           IN \A n \in 1..Len(ws) :
                Lookup(RewrittenDocument(occ.jsonFile),
                       OccurrenceParts(occ) \o pathParts(ws[n].path), 1)
                  = Undefined
    /\ totalRemoved = ReportedUnknownProperties

(***************************************************************************)
(* C24. -rm-sections deletes only confirmed, unused, ordinary sections.    *)
(***************************************************************************)
\* the answer is the word yes in any mix of cases, spaces around it aside
SaysYes(answer) ==
  \E lead, trail \in {"", "\n", " "} :
    \E y \in {"y", "Y"}, e \in {"e", "E"}, z \in {"s", "S"} :
      answer = lead \o y \o e \o z \o trail

\* the nodes of the JSON documents that name the file as their component
OccurrencesInDocuments(file) ==
  SumOver([i \in 1..Len(docs) |->
             IF docs[i].parses
               THEN Len(findInObject(docs[i].json,
                                     "site" \o SubSeq(file, Len(CleanupRoot) + 1,
                                                      Len(file)),
                                     "", <<>>, FALSE))
               ELSE 0], 1)

\* C24: no file is deleted unless the answer read is yes in any case; a
\* deleted file is under /sections/, no JSON document has an occurrence of
\* it, and it is not under Theme, Component.tsx or Session.tsx; no loader
\* or action file is deleted.
C24_OnlyUnusedSectionsDeleted ==
  /\ deletedFiles # {} => SaysYes(confirmation)
  /\ \A file \in deletedFiles :
       /\ includes(file, "/sections/")
       /\ OccurrencesInDocuments(file) = 0
       /\ ~includes(file, "/sections/Theme/")
       /\ ~endsWith(file, "/sections/Component.tsx")
       /\ ~endsWith(file, "/sections/Session.tsx")
       /\ ~includes(file, "/loaders/") /\ ~includes(file, "/actions/")

(***************************************************************************)
(* C25. A section some TypeScript file imports is not removed.             *)
(***************************************************************************)
\* C25: with -rm-sections, a section file that an import statement of the
\* project names is never deleted, whether or not a block uses it.
C25_ImportedSectionsKept ==
  \A file \in importedFiles : file \notin deletedFiles

(***************************************************************************)
(* C26. Reporting unknown properties changes no error.                     *)
(***************************************************************************)
ErrorsOf(found) == SelectSeq(found, LAMBDA e : e.severity = "error")

\* C26: for every value and schema the error issues validateValue returns
\* are the same whether unknown properties are ignored or reported; the
\* reporting only adds warnings, unions of object schemas included.
C26_SameErrorsEitherWay ==
  vpc = "done" =>
    ErrorsOf(issues)
      = ErrorsOf(validateValue(value, schema, path, ~ignoreUnusedProps))

(***************************************************************************)
(* src/src/import-analyzer.ts resolveTypeToPath and getSectionContent, and *)
(* the use validateJsonFile makes of them for a section of the site.       *)
(***************************************************************************)
\* the first index at which pattern occurs in str from i on, 0 when none
RECURSIVE indexFrom(_, _, _)
indexFrom(str, pattern, i) ==
  IF i + Len(pattern) - 1 > Len(str) THEN 0
  ELSE IF SubSeq(str, i, i + Len(pattern) - 1) = pattern THEN i
  ELSE indexFrom(str, pattern, i + 1)

\* String.prototype.replace with a string pattern: the first occurrence
replace(str, pattern, replacement) ==
  LET at == indexFrom(str, pattern, 1) IN
    IF at = 0 THEN str
    ELSE SubSeq(str, 1, at - 1) \o replacement
         \o SubSeq(str, at + Len(pattern), Len(str))

\* for (const p of paths): the extensions tried for a path without one
RECURSIVE pathsWithExtensions(_, _)
pathsWithExtensions(paths, i) ==
  IF i > Len(paths) THEN <<>>
  ELSE (IF ~endsWith(paths[i], ".tsx") /\ ~endsWith(paths[i], ".ts")
          THEN <<paths[i] \o ".tsx", paths[i] \o ".ts">>
          ELSE <<paths[i]>>)
       \o pathsWithExtensions(paths, i + 1)

resolveTypeToPath(resolveType) ==
  IF isSavedBlock(resolveType)
    THEN <<".deco/blocks/" \o blockNameToFileName(resolveType)>>
  ELSE IF ~startsWith(resolveType, "site/") THEN <<>>
  ELSE LET first == replace(resolveType, "site/", "./sections/")
       IN pathsWithExtensions(<<first, replace(first, "./sections/", "./")>>, 1)

\* the content of a file is told apart by the file it was read from
contentOf(file) == "content of " \o file

\* for (const path of paths): the first file Deno.readTextFile can read
RECURSIVE readFirst(_, _, _)
readFirst(paths, i, files) ==
  IF i > Len(paths) THEN "null"
  ELSE IF paths[i] \in files THEN contentOf(paths[i])
  ELSE readFirst(paths, i + 1, files)

getSectionContent(resolveType, files) ==
  IF isSavedBlock(resolveType) THEN "null"
  ELSE readFirst(resolveTypeToPath(resolveType), 1, files)

\* const sectionFilePath = sectionPaths.length > 0 ? sectionPaths[0]
\*                                                  : undefined
sectionFilePathOf(resolveType) ==
  IF Len(resolveTypeToPath(resolveType)) > 0
    THEN resolveTypeToPath(resolveType)[1]
    ELSE "undefined"

SectionTypes ==
  {"site/sections/Hero.tsx", "site/sections/Hero", "site/Hero", "site/Hero.ts",
   "site/loaders/list.ts", "website/sections/Seo.tsx"}

SourceFileUniverse ==
  {"./sections/sections/Hero.tsx", "./sections/Hero.tsx", "./sections/Hero.ts",
   "./Hero.tsx", "./Hero.ts", "./sections/loaders/list.ts", "./loaders/list.ts"}

InitSectionPath ==
  /\ ValIdle /\ RunIdle /\ JfIdle /\ AnIdle /\ ExIdle /\ RiIdle /\ RxIdle
  /\ ClIdle /\ CaIdle /\ PtIdle
  /\ sectionType \in SectionTypes
  /\ sourceFiles \in SUBSET SourceFileUniverse
  /\ readFrom = "" /\ extractionPath = ""
  /\ spc = "call"

\* validateJsonFile from getSectionContent to getExportDefaultFunctionProps:
\* a section whose content is not found is reported and skipped
LookupSection ==
  /\ spc = "call"
  /\ readFrom' = getSectionContent(sectionType, sourceFiles)
  /\ extractionPath' = IF getSectionContent(sectionType, sourceFiles) = "null"
                         THEN ""
                         ELSE sectionFilePathOf(sectionType)
  /\ spc' = "done"
  /\ UNCHANGED <<sectionType, sourceFiles>>
  /\ UNCHANGED valVars /\ UNCHANGED runVars /\ UNCHANGED jfVars
  /\ UNCHANGED anVars /\ UNCHANGED exVars /\ UNCHANGED riVars
  /\ UNCHANGED rxVars /\ UNCHANGED clVars /\ UNCHANGED caVars
  /\ UNCHANGED ptVars

NextSectionPath == LookupSection

SpecSectionPath == InitSectionPath /\ [][NextSectionPath]_vars

(***************************************************************************)
(* src/src/import-analyzer.ts getSavedBlockContent and getSectionContent   *)
(* called by several callers at once.  A call runs without interruption    *)
(* up to its first await; a read settles in a later step.                  *)
(***************************************************************************)
MaxCallers == 3

\* the files a call reads, in order
pathsRead(fn, resolveType) ==
  IF fn = "getSavedBlockContent"
    THEN <<".deco/blocks/" \o blockNameToFileName(resolveType)>>
    ELSE resolveTypeToPath(resolveType)

\* the early return of the two functions
returnsNullAtOnce(fn, resolveType) ==
  IF fn = "getSavedBlockContent" THEN ~isSavedBlock(resolveType)
                                 ELSE isSavedBlock(resolveType)

cacheOf(fn) ==
  IF fn = "getSavedBlockContent" THEN savedBlockContentCache
                                 ELSE sectionContentCache

\* a slip: the promise is not stored, a later call starts a read of its own
cacheSet_Forgotten(cache, resolveType, promise) == cache

\* savedBlockContentCache.set(resolveType, contentPromise)
cacheSet(cache, resolveType, promise) == mapSet(cache, resolveType, promise)

\* the promise an async function makes: reading paths[at], or settled
Reading(fn, resolveType, at) ==
  [fn |-> fn, resolveType |-> resolveType, at |-> at, settled |-> FALSE,
   content |-> "null"]
Settled(fn, resolveType, content) ==
  [fn |-> fn, resolveType |-> resolveType, at |-> 0, settled |-> TRUE,
   content |-> content]

\* contentPromise as it is when the async function reaches its first await
contentPromise(fn, resolveType) ==
  IF Len(pathsRead(fn, resolveType)) = 0
    THEN Settled(fn, resolveType, "null")
    ELSE Reading(fn, resolveType, 1)

ReadOf(fn, resolveType, at) ==
  [fn |-> fn, resolveType |-> resolveType, file |-> pathsRead(fn, resolveType)[at]]

ContentTypes == {"Saved Block", "site/Hero.tsx"}

ContentFileUniverse ==
  {".deco/blocks/Saved%20Block.json", "./sections/Hero.tsx", "./Hero.tsx"}

Waiting(fn, resolveType) ==
  [pc |-> "idle", fn |-> fn, resolveType |-> resolveType, promise |-> 0,
   returned |-> "null"]

\* the calls made in a run; the callers are alike, so the requests are
\* listed in one order and only the steps interleave
Requests ==
  <<Waiting("getSavedBlockContent", "Saved Block"),
    Waiting("getSavedBlockContent", "site/Hero.tsx"),
    Waiting("getSectionContent", "Saved Block"),
    Waiting("getSectionContent", "site/Hero.tsx")>>

InitCache ==
  /\ ValIdle /\ RunIdle /\ JfIdle /\ AnIdle /\ ExIdle /\ RiIdle /\ RxIdle
  /\ ClIdle /\ SpIdle /\ PtIdle
  /\ \E f \in [1..MaxCallers -> 1..Len(Requests)] :
       /\ \A c \in 1..(MaxCallers - 1) : f[c] <= f[c + 1]
       /\ calls = [c \in 1..MaxCallers |-> Requests[f[c]]]
  /\ savedBlockContentCache = <<>> /\ sectionContentCache = <<>>
  /\ promises = <<>> /\ readLog = <<>>
  /\ contentFiles \in SUBSET ContentFileUniverse
  /\ diskChanged = FALSE

CacheUnchangedOthers ==
  /\ UNCHANGED valVars /\ UNCHANGED runVars /\ UNCHANGED jfVars
  /\ UNCHANGED anVars /\ UNCHANGED exVars /\ UNCHANGED riVars
  /\ UNCHANGED rxVars /\ UNCHANGED clVars /\ UNCHANGED spVars
  /\ UNCHANGED ptVars

\* a call up to its first await: the early return, the cached promise, or
\* a new promise whose first read is issued and which is stored at once
CallGetContent(c) ==
  /\ calls[c].pc = "idle"
  /\ LET fn == calls[c].fn
         t == calls[c].resolveType
     IN IF returnsNullAtOnce(fn, t)
          THEN /\ calls' = [calls EXCEPT ![c].pc = "returned"]
               /\ UNCHANGED <<savedBlockContentCache, sectionContentCache,
                              promises, readLog>>
        ELSE IF mapHas(cacheOf(fn), t)
          THEN /\ calls' = [calls EXCEPT ![c].pc = "awaiting",
                                         ![c].promise = mapGet(cacheOf(fn), t)]
               /\ UNCHANGED <<savedBlockContentCache, sectionContentCache,
                              promises, readLog>>
        ELSE /\ promises' = Append(promises, contentPromise(fn, t))
             /\ readLog' = IF contentPromise(fn, t).settled THEN readLog
                           ELSE Append(readLog, ReadOf(fn, t, 1))
             /\ savedBlockContentCache' =
                  IF fn = "getSavedBlockContent"
                    THEN cacheSet(savedBlockContentCache, t, Len(promises) + 1)
                    ELSE savedBlockContentCache
             /\ sectionContentCache' =
                  IF fn = "getSectionContent"
                    THEN cacheSet(sectionContentCache, t, Len(promises) + 1)
                    ELSE sectionContentCache
             /\ calls' = [calls EXCEPT ![c].pc = "awaiting",
                                       ![c].promise = Len(promises) + 1]
  /\ UNCHANGED <<contentFiles, diskChanged>>
  /\ CacheUnchangedOthers

\* await Deno.readTextFile(path) settles: the content is returned, or the
\* catch gives null (saved block) or goes on to the next path (section)
ReadSettles(p) ==
  /\ p \in 1..Len(promises)
  /\ ~promises[p].settled
  /\ LET pr == promises[p]
         paths == pathsRead(pr.fn, pr.resolveType)
     IN IF paths[pr.at] \in contentFiles
          THEN /\ promises' = [promises EXCEPT
                                 ![p] = Settled(pr.fn, pr.resolveType,
                                                contentOf(paths[pr.at]))]
               /\ UNCHANGED readLog
        ELSE IF pr.at < Len(paths)
          THEN /\ promises' = [promises EXCEPT ![p].at = pr.at + 1]
               /\ readLog' = Append(readLog,
                                    ReadOf(pr.fn, pr.resolveType, pr.at + 1))
        ELSE /\ promises' = [promises EXCEPT
                               ![p] = Settled(pr.fn, pr.resolveType, "null")]
             /\ UNCHANGED readLog
  /\ UNCHANGED <<calls, savedBlockContentCache, sectionContentCache,
                 contentFiles, diskChanged>>
  /\ CacheUnchangedOthers

\* return await contentPromise
ReturnContent(c) ==
  /\ calls[c].pc = "awaiting"
  /\ promises[calls[c].promise].settled
  /\ calls' = [calls EXCEPT ![c].pc = "returned",
                            ![c].returned = promises[calls[c].promise].content]
  /\ UNCHANGED <<savedBlockContentCache, sectionContentCache, promises,
                 readLog, contentFiles, diskChanged>>
  /\ CacheUnchangedOthers

\* another process creates or deletes a file while the run goes on
DiskChanges ==
  /\ ~diskChanged
  /\ \E file \in ContentFileUniverse :
       contentFiles' = IF file \in contentFiles THEN contentFiles \ {file}
                                                ELSE contentFiles \cup {file}
  /\ diskChanged' = TRUE
  /\ UNCHANGED <<calls, savedBlockContentCache, sectionContentCache, promises,
                 readLog>>
  /\ CacheUnchangedOthers

NextCache ==
  \/ \E c \in 1..MaxCallers : CallGetContent(c)
  \/ \E p \in 1..MaxCallers : ReadSettles(p)
  \/ \E c \in 1..MaxCallers : ReturnContent(c)
  \/ DiskChanges

SpecCache == InitCache /\ [][NextCache]_vars

(***************************************************************************)
(* C27. Content and file path come from the first candidate that exists.   *)
(***************************************************************************)
\* the candidates of site/<rest>: under ./sections/ before the project
\* root, .tsx before .ts when the identifier has no extension
ExpectedCandidates(resolveType) ==
  LET rest == SubSeq(resolveType, 6, Len(resolveType))
      hasExtension == endsWith(rest, ".tsx") \/ endsWith(rest, ".ts")
  IN IF hasExtension
       THEN <<"./sections/" \o rest, "./" \o rest>>
       ELSE <<"./sections/" \o rest \o ".tsx", "./sections/" \o rest \o ".ts",
              "./" \o rest \o ".tsx", "./" \o rest \o ".ts">>

ExistingCandidates(resolveType) ==
  SelectSeq(ExpectedCandidates(resolveType), LAMBDA p : p \in sourceFiles)

\* C27: for a component of the site with a candidate on disk, the content
\* read is that of the first existing candidate in the fixed order, and the
\* file path handed to the type extraction is that same candidate.
C27_FirstExistingCandidate ==
  (spc = "done" /\ startsWith(sectionType, "site/")
   /\ Len(ExistingCandidates(sectionType)) > 0) =>
    /\ readFrom = contentOf(ExistingCandidates(sectionType)[1])
    /\ extractionPath = ExistingCandidates(sectionType)[1]

(***************************************************************************)
(* C28. One read per identifier, one value for every call.                 *)
(***************************************************************************)
SameRequest(a, b) == a.fn = b.fn /\ a.resolveType = b.resolveType

\* C28: however the calls of getSavedBlockContent (and of getSectionContent)
\* with one identifier interleave, a call issued while a read is pending
\* included, no file is read twice for that identifier, all the calls that
\* have returned have returned the same value, and the cache holds for the
\* identifier the one promise ever made for it.
C28_ReadOnceSameValue ==
  /\ \A i, j \in 1..Len(readLog) : i # j => readLog[i] # readLog[j]
  /\ \A c, d \in 1..MaxCallers :
       (SameRequest(calls[c], calls[d]) /\ calls[c].pc = "returned"
        /\ calls[d].pc = "returned") => calls[c].returned = calls[d].returned
  /\ \A p, q \in 1..Len(promises) :
       p # q => ~SameRequest(promises[p], promises[q])
  /\ \A p \in 1..Len(promises) :
       /\ mapHas(cacheOf(promises[p].fn), promises[p].resolveType)
       /\ mapGet(cacheOf(promises[p].fn), promises[p].resolveType) = p

\* two calls with one identifier, the second issued while the read of the
\* first was pending, have both returned the content, the file having been
\* deleted in between
C28_Witness ==
  \E c, d \in 1..MaxCallers :
    /\ c # d /\ SameRequest(calls[c], calls[d])
    /\ calls[c].pc = "returned" /\ calls[d].pc = "awaiting"
    /\ calls[c].returned # "null"
    /\ diskChanged /\ contentFiles = {}
    /\ Len(readLog) = 1

(***************************************************************************)
(* src/unnamed/part_010 with processingTypes as the module-level set it    *)
(* is: every function takes the set as it finds it and gives it back as    *)
(* it leaves it, normally or by exception, with the schema or RangeError.  *)
(***************************************************************************)
Outcome(s, left) == [schema |-> s, left |-> left]

\* a slip: the entry is not deleted when the resolution ends
finallyDelete_Skipped(processing, typeKey) == processing

\* finally { processingTypes.delete(typeKey) }
finallyDelete(processing, typeKey) == processing \ {typeKey}

RECURSIVE resolveTypeNodeWithSet(_, _, _, _, _)
RECURSIVE resolveTypeNodeTryWithSet(_, _, _, _, _)
RECURSIVE resolveUnionTypesWithSet(_, _, _, _, _, _)
RECURSIVE buildValidationSchemaWithSet(_, _, _, _)
RECURSIVE heritagePropertiesWithSet(_, _, _, _, _, _)
RECURSIVE memberPropertiesWithSet(_, _, _, _, _, _)
RECURSIVE resolveUtilityWithSet(_, _, _, _, _)

heritagePropertiesWithSet(bases, i, props, decls, processing, depth) ==
  IF i > Len(bases) THEN Outcome(ObjectS(props, FALSE), processing)
  ELSE LET baseInterface == resolveInterfaceByName(decls, bases[i]) IN
       IF baseInterface = 0
         THEN heritagePropertiesWithSet(bases, i + 1, props, decls, processing,
                                        depth)
       ELSE LET r == buildValidationSchemaWithSet(decls[baseInterface], decls,
                                                  processing, depth)
            IN IF threw(r.schema) THEN r
               ELSE heritagePropertiesWithSet(bases, i + 1,
                      assignAll(props, r.schema.properties, 1),
                      decls, r.left, depth)

memberPropertiesWithSet(members, i, props, decls, processing, depth) ==
  IF i > Len(members) THEN Outcome(ObjectS(props, FALSE), processing)
  ELSE IF members[i].ignore
    THEN memberPropertiesWithSet(members, i + 1, props, decls, processing, depth)
  ELSE LET r == resolveTypeNodeWithSet(members[i].type,
                                       members[i].questionToken,
                                       decls, processing, depth)
       IN IF threw(r.schema) THEN r
          ELSE memberPropertiesWithSet(members, i + 1,
                 assign(props, members[i].name, r.schema),
                 decls, r.left, depth)

buildValidationSchemaWithSet(interfaceDecl, decls, processing, depth) ==
  IF depth = 0 THEN Outcome(RangeError, processing)
  ELSE LET inherited == heritagePropertiesWithSet(interfaceDecl.heritage, 1,
                          <<>>, decls, processing, depth - 1)
       IN IF threw(inherited.schema) THEN inherited
          ELSE memberPropertiesWithSet(interfaceDecl.members, 1,
                                       inherited.schema.properties,
                                       decls, inherited.left, depth - 1)

resolveUnionTypesWithSet(types, i, members, decls, processing, depth) ==
  IF i > Len(types) THEN Outcome(UnionS(members, FALSE), processing)
  ELSE LET r == resolveTypeNodeWithSet(types[i], FALSE, decls, processing,
                                       depth)
       IN IF threw(r.schema) THEN r
          ELSE resolveUnionTypesWithSet(types, i + 1, Append(members, r.schema),
                                        decls, r.left, depth)

\* resolveOmitType, resolvePickType, resolvePartialType
resolveUtilityWithSet(typeNode, optional, decls, processing, depth) ==
  IF depth = 0 THEN Outcome(RangeError, processing)
  ELSE IF Len(typeNode.typeArguments)
            < (IF typeNode.typeName = "Partial" THEN 1 ELSE 2)
    THEN Outcome(AnyS(optional), processing)
  ELSE LET r == resolveTypeNodeWithSet(typeNode.typeArguments[1], FALSE,
                                       decls, processing, depth - 1)
           props == r.schema.properties
       IN IF threw(r.schema) \/ r.schema.kind # "object" THEN r
          ELSE Outcome(
                 ObjectS(
                   CASE typeNode.typeName = "Omit" ->
                          omitProperties(props,
                            extractLiteralKeys(typeNode.typeArguments[2]))
                     [] typeNode.typeName = "Pick" ->
                          pickProperties(props,
                            extractLiteralKeys(typeNode.typeArguments[2]),
                            1, <<>>)
                     [] OTHER -> partialProperties(props),
                   optional),
                 r.left)

resolveTypeNodeTryWithSet(typeNode, optional, decls, processing, depth) ==
  CASE typeNode.k = "keyword" ->
         Outcome(IF typeNode.word \in {"string", "number", "boolean", "null"}
                   THEN Primitive(typeNode.word, optional)
                   ELSE AnyS(optional),
                 processing)
    [] typeNode.k = "array" ->
         LET r == resolveTypeNodeWithSet(typeNode.elementType, FALSE, decls,
                                         processing, depth)
         IN IF threw(r.schema) THEN r
            ELSE Outcome(ArrayS(r.schema, optional), r.left)
    [] typeNode.k = "union" ->
         LET r == resolveUnionTypesWithSet(typeNode.types, 1, <<>>, decls,
                                           processing, depth)
         IN IF threw(r.schema) THEN r
            ELSE Outcome(UnionS(r.schema.unionTypes, optional), r.left)
    [] typeNode.k = "ref" ->
         IF typeNode.typeName \in specialTypes
           THEN Outcome(SpecialS(typeNode.typeName, optional), processing)
         ELSE IF typeNode.typeName \in {"Omit", "Pick", "Partial"}
                 /\ typeNode.typeArguments # <<>>
           THEN resolveUtilityWithSet(typeNode, optional, decls, processing,
                                      depth)
         ELSE IF resolveInterfaceByName(decls, typeNode.typeName) # 0
           THEN LET r == buildValidationSchemaWithSet(
                           decls[resolveInterfaceByName(decls, typeNode.typeName)],
                           decls, processing, depth)
                IN IF threw(r.schema) THEN r
                   ELSE Outcome([r.schema EXCEPT !.optional = optional], r.left)
         ELSE IF resolveTypeAliasByName(decls, typeNode.typeName) # 0
           THEN resolveTypeNodeWithSet(
                  decls[resolveTypeAliasByName(decls, typeNode.typeName)].type,
                  optional, decls, processing, depth)
         ELSE Outcome(AnyS(optional), processing)
    [] typeNode.k = "literal" ->
         LET r == memberPropertiesWithSet(typeNode.members, 1, <<>>, decls,
                                          processing, depth)
         IN IF threw(r.schema) THEN r
            ELSE Outcome([r.schema EXCEPT !.optional = optional], r.left)
    [] OTHER -> Outcome(AnyS(optional), processing)

\* has, add, try, finally delete
resolveTypeNodeWithSet(typeNode, optional, decls, processing, depth) ==
  IF depth = 0 THEN Outcome(RangeError, processing)
  ELSE IF typeNode.k = "none" THEN Outcome(AnyS(optional), processing)
  ELSE IF getText(typeNode) \in processing
    THEN Outcome(AnyS(optional), processing)
  ELSE LET r == resolveTypeNodeTryWithSet(typeNode, optional, decls,
                  processing \cup {getText(typeNode)}, depth - 1)
       IN Outcome(r.schema, finallyDelete(r.left, getText(typeNode)))

\* extractPropsInterface from the end of the read to its return: what it
\* returns (null for an exception caught) and the set it leaves
extractWithSet(source, processing) ==
  LET r == IF source.param.k # "none"
             THEN resolveTypeNodeWithSet(source.param, FALSE, source.decls,
                                         processing, StackLimit)
           ELSE IF propsDeclaration(source.decls, "interface") # 0
             THEN buildValidationSchemaWithSet(
                    source.decls[propsDeclaration(source.decls, "interface")],
                    source.decls, processing, StackLimit)
           ELSE IF propsDeclaration(source.decls, "alias") # 0
             THEN resolveTypeNodeWithSet(
                    source.decls[propsDeclaration(source.decls, "alias")].type,
                    FALSE, source.decls, processing, StackLimit)
           ELSE Outcome(NoSchema, processing)
  IN Outcome(IF threw(r.schema) THEN NoSchema ELSE r.schema, r.left)

(***************************************************************************)
(* SpecInterleave: several extractPropsInterface calls in flight.  A call  *)
(* runs without interruption between two awaits: from its start to the     *)
(* read of its file, and from the end of the read to its return or to the  *)
(* nested call on the file it re-exports, which runs to its own read.      *)
(***************************************************************************)
MaxExtractions == 2

TwinProps(t) ==
  InterfaceD("Props", <<>>, << Member("first", FALSE, FALSE, t),
                               Member("second", FALSE, FALSE, t) >>)

InterleaveSources ==
  << SourceFile(Library \o <<TwinProps(RefT("Base", <<>>))>>, NoType),
     SourceFile(Library \o <<TwinProps(RefT("Tree", <<>>))>>, NoType),
     SourceFile(Library \o <<TwinProps(ArrayT(RefT("Props", <<>>)))>>, NoType),
     SourceFile(Library \o <<TwinProps(RefT("Partial", <<RefT("Mid", <<>>)>>))>>,
                NoType),
     SourceFile(Library \o <<InterfaceD("Props", <<"LoopA">>, <<>>)>>, NoType),
     SourceFile(Library \o <<AliasD("Props", UnionT(<<RefT("Mid", <<>>),
                                                     RefT("Mid", <<>>)>>))>>,
                NoType),
     SourceFile(Library, RefT("Mid", <<>>)),
     SourceFile(Library, NoType) >>

\* a call on a file that re-exports the source through so many files
Extraction(source, hops) ==
  [pc |-> "start", source |-> source, hops |-> hops, returned |-> NoSchema]

InitInterleave ==
  /\ ValIdle /\ RunIdle /\ JfIdle /\ AnIdle /\ ExIdle /\ RiIdle /\ RxIdle
  /\ ClIdle /\ SpIdle /\ CaIdle
  /\ processingTypes = {}
  /\ \E f \in [1..MaxExtractions -> 1..Len(InterleaveSources)],
        h \in [1..MaxExtractions -> 0..1] :
       /\ \A c \in 1..(MaxExtractions - 1) : f[c] <= f[c + 1]
       /\ extractions = [c \in 1..MaxExtractions |->
                           Extraction(InterleaveSources[f[c]], h[c])]

InterleaveUnchangedOthers ==
  /\ UNCHANGED valVars /\ UNCHANGED runVars /\ UNCHANGED jfVars
  /\ UNCHANGED anVars /\ UNCHANGED exVars /\ UNCHANGED riVars
  /\ UNCHANGED rxVars /\ UNCHANGED clVars /\ UNCHANGED spVars
  /\ UNCHANGED caVars

\* processingTypes.clear(); await Deno.readTextFile(filePath)
BeginExtraction(c) ==
  /\ extractions[c].pc = "start"
  /\ processingTypes' = {}
  /\ extractions' = [extractions EXCEPT ![c].pc = "reading"]
  /\ InterleaveUnchangedOthers

\* the read has ended and the file re-exports another: the nested call
\* runs to its own read
FollowExport(c) ==
  /\ extractions[c].pc = "reading"
  /\ extractions[c].hops > 0
  /\ processingTypes' = {}
  /\ extractions' = [extractions EXCEPT ![c].hops = @ - 1]
  /\ InterleaveUnchangedOthers

\* the read has ended: the schema is built and returned
FinishExtraction(c) ==
  /\ extractions[c].pc = "reading"
  /\ extractions[c].hops = 0
  /\ LET r == extractWithSet(extractions[c].source, processingTypes) IN
       /\ processingTypes' = r.left
       /\ extractions' = [extractions EXCEPT ![c].pc = "returned",
                                             ![c].returned = r.schema]
  /\ InterleaveUnchangedOthers

NextInterleave ==
  \/ \E c \in 1..MaxExtractions : BeginExtraction(c)
  \/ \E c \in 1..MaxExtractions : FollowExport(c)
  \/ \E c \in 1..MaxExtractions : FinishExtraction(c)

SpecInterleave == InitInterleave /\ [][NextInterleave]_vars

(***************************************************************************)
(* C29. The set of types being resolved is empty between the steps.        *)
(***************************************************************************)
\* what extractPropsInterface returns for the source when no other call is
\* in flight
ReturnedAlone(source) ==
  IF threw(extractPropsInterfaceTry(source)) THEN NoSchema
  ELSE extractPropsInterfaceTry(source)

HasTwins(source) ==
  propsDeclaration(source.decls, "interface") # 0
  /\ Len(source.decls[propsDeclaration(source.decls, "interface")].members) = 2
  /\ source.decls[propsDeclaration(source.decls, "interface")]
       = TwinProps(source.decls[propsDeclaration(source.decls, "interface")]
                     .members[1].type)

TwinType(source) ==
  source.decls[propsDeclaration(source.decls, "interface")].members[1].type

\* C29: processingTypes is empty whenever a call of extractPropsInterface
\* waits or has returned; so each of several interleaved calls returns the
\* schema it returns when run alone, and a type two sibling properties use
\* is resolved in full for both.
C29_SetEmptyBetweenSteps ==
  /\ processingTypes = {}
  /\ \A c \in 1..MaxExtractions :
       extractions[c].pc = "returned" =>
         /\ extractions[c].returned = ReturnedAlone(extractions[c].source)
         /\ HasTwins(extractions[c].source) =>
              /\ propertyOf(extractions[c].returned.properties, "second")
                   = propertyOf(extractions[c].returned.properties, "first")
              /\ propertyOf(extractions[c].returned.properties, "second")
                   = resolveTypeNode(TwinType(extractions[c].source), FALSE,
                                     extractions[c].source.decls, {},
                                     StackLimit)

\* a call has returned an object schema for two sibling properties of one
\* type while another call, started before it, still waits for its file
C29_Witness ==
  \E c, d \in 1..MaxExtractions :
    /\ c # d
    /\ extractions[c].pc = "returned" /\ extractions[d].pc = "reading"
    /\ HasTwins(extractions[c].source)
    /\ propertyOf(extractions[c].returned.properties, "second").kind = "object"

(***************************************************************************)
(* C30. usedSavedBlocks holds the saved blocks referenced, transitively.   *)
(***************************************************************************)
\* the saved blocks a document refers to
SavedBlockRefs(content) ==
  IF content.parses
    THEN { s.resolveType : s \in { r \in SeqRange(findSectionsInJson(content.json, <<>>)) :
                                     isSavedBlock(r.resolveType) } }
    ELSE {}

\* the saved blocks referred to by a document or by a block expanded from
\* it; seen are the blocks on the chain of expansions
RECURSIVE ReferencedFrom(_, _)
ReferencedFrom(content, seen) ==
  SavedBlockRefs(content)
  \cup UNION { ReferencedFrom(blocks[name], seen \cup {name}) :
               name \in { n \in SavedBlockRefs(content) \ seen :
                            n \in DOMAIN blocks /\ blocks[n].exists } }

\* C30: the usedSavedBlocks that validateJsonFile returns for a document are
\* the saved blocks referred to by the document or by a block expanded from
\* it, a circular reference, one with extra properties and one whose file
\* is missing included, and nothing else; every error returned carries the
\* file of the document validated.
C30_UsedSavedBlocksExact ==
  jpc \in {"done", "collected"} =>
    /\ jfResult.usedSavedBlocks = ReferencedFrom(topDoc, {})
    /\ \A i \in 1..Len(jfResult.errors) : jfResult.errors[i].file = TopFile

====
